---- MODULE Spec2Model ----
(***************************************************************************)
(* A state-machine model of the Peanut-GB emulator core (src/peanut_gb.h): *)
(* gb_init, gb_reset, gb_set_bootrom, gb_init_serial, gb_run_frame and     *)
(* __gb_step_cpu with its interrupt service, HALT handling and the timing  *)
(* loop (RTC, DIV, serial, TIMA, LCD), __gb_write with the MBC registers,  *)
(* cart RAM, the RTC registers and the I/O registers, the address decode   *)
(* of __gb_read, and the two calls of gb_error.                            *)
(*                                                                         *)
(* The emulator context struct gb_s is the record gb; the guest program is *)
(* an input: every step fetches an instruction drawn from a small set.     *)
(* __gb_step_cpu is three actions: GbStepInterrupts is the interrupt check *)
(* at its top, GbStepCpu the fetch and execution of one opcode, and        *)
(* GbStepTiming one iteration of its do-while loop together with the loop  *)
(* test (that loop need not terminate).                                    *)
(***************************************************************************)
EXTENDS Integers, Sequences, FiniteSets, TLC

(***************************************************************************)
(* Program constants (src/peanut_gb.h).                                    *)
(***************************************************************************)
VBLANK_INTR == 1
LCDC_INTR == 2
TIMER_INTR == 4
SERIAL_INTR == 8
CONTROL_INTR == 16
ANY_INTR == 31

ROM_BANK_SIZE == 16384
VRAM_ADDR == 32768
CART_RAM_ADDR == 40960
WRAM_0_ADDR == 49152
ECHO_ADDR == 57344
OAM_ADDR == 65024
CRAM_BANK_SIZE == 8192
UNUSED_ADDR == 65184
IO_ADDR == 65280
HRAM_ADDR == 65408
INTR_EN_ADDR == 65535

DIV_CYCLES == 256
RTC_CYCLES == 4194304
SERIAL_CYCLES == 4096
SERIAL_SC_TX_START == 128
SERIAL_SC_CLOCK_SRC == 1

STAT_LYC_INTR == 64
STAT_MODE_2_INTR == 32
STAT_MODE_1_INTR == 16
STAT_MODE_0_INTR == 8
STAT_LYC_COINC == 4
STAT_MODE == 3
STAT_USER_BITS == 248

LCDC_ENABLE == 128

LCD_VERT_LINES == 154
LCD_HEIGHT == 144
LCD_LINE_CYCLES == 456
LCD_MODE0_HBLANK_MAX_DRUATION == 204
LCD_MODE2_OAM_SCAN_DURATION == 80
LCD_MODE3_LCD_DRAW_MIN_DURATION == 172
LCD_FRAME_CYCLES == LCD_LINE_CYCLES * LCD_VERT_LINES
\* an OAM scan that ends 16 cycles late
OamScanEndsLate == LCD_MODE2_OAM_SCAN_DURATION + 16

LCD_MODE2_OAM_SCAN_END == LCD_MODE2_OAM_SCAN_DURATION
LCD_MODE3_LCD_DRAW_END == LCD_MODE2_OAM_SCAN_END + LCD_MODE3_LCD_DRAW_MIN_DURATION

VBLANK_INTR_ADDR == 64
LCDC_INTR_ADDR == 72
TIMER_INTR_ADDR == 80
SERIAL_INTR_ADDR == 88
CONTROL_INTR_ADDR == 96

ROM_HEADER_CHECKSUM_LOC == 333

IO_JOYP == 0
IO_SB == 1
IO_SC == 2
IO_DIV == 4
IO_TIMA == 5
IO_TMA == 6
IO_TAC == 7
IO_IF == 15
IO_LCDC == 64
IO_STAT == 65
IO_SCY == 66
IO_SCX == 67
IO_LY == 68
IO_LYC == 69
IO_DMA == 70
IO_BGP == 71
IO_OBP0 == 72
IO_OBP1 == 73
IO_WY == 74
IO_WX == 75
IO_BOOT == 80
IO_IE == 255

IO_TAC_RATE_MASK == 3
IO_TAC_ENABLE_MASK == 4

IO_STAT_MODE_HBLANK == 0
IO_STAT_MODE_VBLANK == 1
IO_STAT_MODE_OAM_SCAN == 2
IO_STAT_MODE_LCD_DRAW == 3

\* static const uint_fast16_t TAC_CYCLES[4] (indexed from 0 in the source)
TAC_CYCLES == <<1024, 16, 64, 256>>

\* <stdint.h>: the least value the C standard allows for INT_FAST16_MAX
INT_FAST16_MAX == 32767

\* enum gb_error_e, as far as the core reports it
GB_INVALID_OPCODE == "GB_INVALID_OPCODE"
GB_INVALID_READ == "GB_INVALID_READ"

\* gb_init return values (enum gb_init_error_e)
GB_INIT_NO_ERROR == "GB_INIT_NO_ERROR"
GB_INIT_CARTRIDGE_UNSUPPORTED == "GB_INIT_CARTRIDGE_UNSUPPORTED"
GB_INIT_INVALID_CHECKSUM == "GB_INIT_INVALID_CHECKSUM"

\* enum gb_serial_rx_ret_e
GB_SERIAL_RX_SUCCESS == "GB_SERIAL_RX_SUCCESS"
GB_SERIAL_RX_NO_CONNECTION == "GB_SERIAL_RX_NO_CONNECTION"

(***************************************************************************)
(* Bit arithmetic on bytes.                                                *)
(***************************************************************************)
\* (x & m) != 0 for a single-bit mask m
BitSet(x, m) == (x \div m) % 2 = 1

\* x | m, x & ~m and x ^ m for a single-bit mask m
OrBit(x, m) == IF BitSet(x, m) THEN x ELSE x + m
ClrBit(x, m) == IF BitSet(x, m) THEN x - m ELSE x
XorBit(x, m) == IF BitSet(x, m) THEN x - m ELSE x + m

\* a & b on 8-bit values
And8(a, b) ==
    LET B(w) == ((a \div w) % 2) * ((b \div w) % 2) * w
    IN  B(1) + B(2) + B(4) + B(8) + B(16) + B(32) + B(64) + B(128)

\* a | b on 8-bit values
Or8(a, b) == a + b - And8(a, b)

\* a & b on 16-bit values
And16(a, b) == And8(a % 256, b % 256) + 256 * And8(a \div 256, b \div 256)

(***************************************************************************)
(* State.                                                                  *)
(***************************************************************************)
VARIABLES
    gb,           \* struct gb_s, the emulator context
    rom,          \* the cartridge header bytes gb_rom_read returns
    prog,         \* the guest code in ROM as far as it has been fetched: the
                  \* instruction that starts at each address, or NoIns
    loc,          \* "start": before gb_init; "failed": gb_init returned an error;
                  \* "idle": between host calls; "step": in gb_run_frame, about to
                  \* call __gb_step_cpu; "fetch": in __gb_step_cpu, about to read
                  \* the opcode; "timing": in the do-while of __gb_step_cpu
    init_ret,     \* what gb_init returned ("none" before the call)
    inst_cycles,  \* the local inst_cycles of __gb_step_cpu
    elapsed       \* observer: instruction cycles handed to the timing loop since
                  \* the current gb_run_frame call began

vars == <<gb, rom, prog, loc, init_ret, inst_cycles, elapsed>>

Byte == 0 .. 255

(***************************************************************************)
(* Bounds of the model (not program constants).                            *)
(***************************************************************************)
\* bytes of guest code that may follow the entry point 0x0100
MaxProg == 5

\* bytes of guest code that may follow each of the five interrupt vectors
MaxHandler == 1

\* bytes that may follow 0x0100 in a guest that may loop (a jump to itself
\* may stand anywhere in that range, and such a guest runs for whole frames)
MaxLoopProg == 4

\* bytes that may follow 0x0100 in a guest that stores to the MBC registers
MaxMbcProg == 6

\* bytes that may follow 0x0100 in a guest that writes and reads cart RAM
MaxRamProg == 15

\* bytes that may follow 0x0100 in a guest that accesses cart RAM or the RTC
\* registers with cart RAM disabled, or latches the RTC
MaxGateProg == 12

\* bytes that may follow 0x0100 in a guest that sets an RTC register,
\* switches the LCD off and halts
MaxRtcProg == 9

\* bytes that may follow 0x0100 in a guest of which any byte may be fetched
\* as an opcode
MaxOpcodeProg == 3

\* bytes that may follow 0x0100 in a guest that switches the LCD off
MaxOffProg == 5

\* bytes that may follow 0x0100 in a guest that writes and reads IF
MaxIfProg == 5

\* bytes that may follow 0x0100 in a guest that adds and adjusts
MaxDaaProg == 2

\* bytes that may follow 0x0100 in a guest that sets up the window
MaxWinProg == 7

\* bytes that may follow 0x0100 in a guest that polls the joypad
MaxJoypProg == 5

\* bytes that may follow 0x0100 in a guest that selects RTC registers
MaxBankProg == 6

\* bytes that may follow 0x0100 in a guest that switches the LCD off and on
MaxDrawProg == 13

\* bytes that may follow 0x0100 in a guest that starts and aborts transfers
MaxTransferProg == 7

\* bytes that may follow 0x0100 in a guest that sets up STAT and LYC
MaxPpuProg == 5

\* bytes of guest code that may follow address 0x0000, in the boot ROM and in
\* the cartridge
MaxBoot == 3

(***************************************************************************)
(* The cartridge header, 0x0134 .. 0x014D, as the host's gb_rom_read gives  *)
(* it. Header(t, ty, bk, rm, ck): first title byte t, cartridge type ty,   *)
(* ROM size code bk, RAM size code rm, checksum byte ck, every other byte 0.*)
(***************************************************************************)
HeaderAddrs == 308 .. 333

Header(t, ty, bk, rm, ck) ==
    [a \in HeaderAddrs |->
        CASE a = 308 -> t
          [] a = 327 -> ty
          [] a = 328 -> bk
          [] a = 329 -> rm
          [] a = 333 -> ck
          [] OTHER -> 0]

\* gb_init's checksum loop: x = x - rom[i] - 1 in uint8_t, i = 0x0134 .. 0x014C
RECURSIVE ChecksumFrom(_, _, _)
ChecksumFrom(r, i, x) ==
    IF i > 332 THEN x
    ELSE ChecksumFrom(r, i + 1, (x - r[i] - 1) % 256)

\* a checksum loop that starts one byte late, at 0x0135
HeaderChecksumFrom0135(r) == ChecksumFrom(r, 309, 0)

HeaderChecksum(r) == ChecksumFrom(r, 308, 0)

\* a type table that takes type 0x04 for an MBC1 cartridge
cart_mbc_type04 ==
    <<0, 1, 1, 1, 1, 2, 2, -1, 0, 0, -1, 0, 0, 0, -1, 3,
      3, 3, 3, 3, -1, -1, -1, -1, -1, 5, 5, 5, 5, 5, 5, -1>>

\* const int8_t cart_mbc[] and const uint8_t cart_ram[] of gb_init (index + 1)
cart_mbc ==
    <<0, 1, 1, 1, -1, 2, 2, -1, 0, 0, -1, 0, 0, 0, -1, 3,
      3, 3, 3, 3, -1, -1, -1, -1, -1, 5, 5, 5, 5, 5, 5, -1>>

cart_ram_tab ==
    <<0, 0, 1, 1, 0, 1, 1, 0, 1, 1, 0, 0, 0, 0, 0, 0,
      1, 0, 1, 1, 0, 0, 0, 0, 0, 0, 1, 1, 0, 0, 0, 0>>

\* const uint16_t num_rom_banks_mask[] and const uint8_t num_ram_banks[]
num_rom_banks_tab == <<2, 4, 8, 16, 32, 64, 128, 256, 512>>
num_ram_banks_tab == <<0, 1, 1, 4, 16, 8>>

\* an array read; an index past the end is undefined behaviour and yields junk
TabRead(tab, i, junk) == IF i < Len(tab) THEN tab[i + 1] ELSE junk

(***************************************************************************)
(* struct gb_s before gb_init. The host declares the context without an    *)
(* initialiser; the fields gb_init and gb_reset assign are given their     *)
(* values there, and the others are taken as zero bytes here. The function *)
(* pointers gb_bootrom_read, gb_serial_tx and gb_serial_rx are booleans:   *)
(* whether the pointer is not NULL. direct.priv is the host's own data,    *)
(* which the host's callbacks reach through the context: here the number   *)
(* of calls of the serial callbacks the host has seen, and what its        *)
(* gb_serial_rx returned last; the host's cart RAM array cart_ram, as the  *)
(* byte save every entry of it holds when the host has allocated it and    *)
(* the entries written since (offset :> byte); and the offsets of the last *)
(* gb_cart_ram_read and gb_cart_ram_write calls (-1: none yet) with the    *)
(* number of gb_cart_ram_write calls; the error the host's gb_error was   *)
(* called with; and the line and pixels its lcd_draw_line was called with  *)
(* last since the host called gb_run_frame (-1: not called since), with a  *)
(* flag drawn that every call of lcd_draw_line inverts. The function       *)
(* pointer display.lcd_draw_line is a boolean as well. oam and vram are    *)
(* empty where a specification does not look at the pixels.                *)
(***************************************************************************)
\* gb_error was not called
NoError == [addr |-> 0, code |-> "none"]

BlankGb ==
    [gb_halt |-> FALSE, gb_ime |-> FALSE, gb_frame |-> FALSE, lcd_blank |-> FALSE,
     cart_is_mbc3O |-> FALSE, gb_bootrom_read |-> FALSE,
     mbc |-> 0, cart_ram |-> 0, num_rom_banks_mask |-> 0, num_ram_banks |-> 0,
     selected_rom_bank |-> 0, cart_ram_bank |-> 0, enable_cart_ram |-> 0,
     cart_mode_select |-> 0,
     gb_serial_tx |-> FALSE, gb_serial_rx |-> FALSE,
     rtc_latched |-> <<0, 0, 0, 0, 0>>, rtc_real |-> <<0, 0, 0, 0, 0>>,
     display |-> [lcd_draw_line |-> FALSE, WY |-> 0, window_clear |-> 0,
                  interlace_count |-> FALSE, frame_skip_count |-> FALSE],
     direct |-> [interlace |-> FALSE, frame_skip |-> FALSE, joypad |-> 0,
                 priv |-> [tx_calls |-> 0, rx_calls |-> 0, rx_ret |-> "none",
                           save |-> 0, cart_ram |-> <<>>,
                           cram_read |-> -1, cram_write |-> -1,
                           cram_writes |-> 0, error |-> NoError,
                           line |-> -1, frame_line |-> -1, drawn |-> FALSE,
                           pixels |-> <<>>]],
     oam |-> <<>>, vram |-> <<>>,
     cpu_reg |-> [a |-> 0, f |-> [z |-> 0, n |-> 0, h |-> 0, c |-> 0],
                  bc |-> 0, de |-> 0, hl |-> 0, sp |-> 0, pc |-> 0],
     counter |-> [lcd_count |-> 0, div_count |-> 0, tima_count |-> 0,
                  serial_count |-> 0, rtc_count |-> 0, lcd_off_count |-> 0],
     hram_io |-> [i \in Byte |-> 0]]

(***************************************************************************)
(* __gb_write. The part modelled is the write's effect on the context for  *)
(* 0x0000-0x7FFF (the MBC registers), for 0xA000-0xBFFF (cart RAM and the  *)
(* RTC registers) and for addresses from 0xFEA0 up (unusable area, I/O     *)
(* registers, HRAM, IE). VRAM, WRAM and OAM are not part of the context    *)
(* modelled here, so a write there leaves the modelled context as it is.   *)
(***************************************************************************)
\* a STAT write that stores the mode bits of the written value too
WriteSTATWithMode(g, val) ==
    [g EXCEPT !.hram_io[IO_STAT] = Or8(val, 128)]

\* case 0x41, the STAT register: only bits 3-6 take the written value
WriteSTAT(g, val) ==
    [g EXCEPT !.hram_io[IO_STAT] =
        Or8(Or8(And8(val, STAT_USER_BITS), And8(g.hram_io[IO_STAT], STAT_MODE)), 128)]

\* an IF write that stores the written value as it is
WriteIFValue(g, val) == [g EXCEPT !.hram_io[IO_IF] = val]

\* case 0x0F, "Interrupt Flag Register"
WriteIF(g, val) == [g EXCEPT !.hram_io[IO_IF] = Or8(val, 224)]

\* an lcd_off_count that leaves out the cycles of the line being drawn
LcdOffCarryNone(g) == g.counter.lcd_off_count

\* case 0x40, "Keep track of lcd_count to correctly track passing time": the
\* lcd_off_count a write that switches the LCD off leaves
LcdOffCarry(g) == g.counter.lcd_off_count + g.counter.lcd_count

\* the switch on the low byte of the address, "IO and Interrupts"
\* a BOOT write that stores the written value
WriteBOOTValue(g, val) == [g EXCEPT !.hram_io[IO_BOOT] = val]

\* case 0x50, "Turn off boot ROM"
WriteBOOT(g, val) == [g EXCEPT !.hram_io[IO_BOOT] = 1]

\* the nibble of direct.joypad a written value selects: "Direction keys
\* selected" when bit 4 is clear, "Button keys selected" otherwise
JoypadNibble(joypad, val) ==
    IF And8(val, 16) = 0 THEN joypad \div 16 ELSE joypad % 16

\* a JOYP write that keeps bits 4-7 of the written value only
WriteJOYPHigh(g, val) ==
    [g EXCEPT !.hram_io[IO_JOYP] =
        Or8(And8(val, 240), JoypadNibble(g.direct.joypad, val))]

\* case 0x00, "Joypad"
WriteJOYP(g, val) ==
    [g EXCEPT !.hram_io[IO_JOYP] = Or8(val, JoypadNibble(g.direct.joypad, val))]

GbWriteIO(g, reg, val) ==
    CASE reg = IO_JOYP -> WriteJOYP(g, val)
      [] reg \in {IO_SB, IO_SC, IO_TIMA, IO_TMA, IO_TAC, IO_SCY, IO_SCX, IO_LYC,
                  IO_DMA, IO_BGP, IO_OBP0, IO_OBP1, IO_WY, IO_WX, IO_IE} ->
            [g EXCEPT !.hram_io[reg] = val]
      [] reg = IO_DIV ->
            [g EXCEPT !.hram_io[IO_DIV] = 0]
      [] reg = IO_IF -> WriteIF(g, val)
      [] reg = IO_LCDC ->
            LET lcd_enabled == BitSet(g.hram_io[IO_LCDC], LCDC_ENABLE)
                g1 == [g EXCEPT !.hram_io[IO_LCDC] = val]
            IN  IF ~lcd_enabled /\ BitSet(val, LCDC_ENABLE)
                THEN [g1 EXCEPT !.lcd_blank = TRUE]
                ELSE IF lcd_enabled /\ ~BitSet(val, LCDC_ENABLE)
                THEN [g1 EXCEPT
                        !.hram_io[IO_STAT] =
                            (g.hram_io[IO_STAT] \div 4) * 4 + IO_STAT_MODE_HBLANK,
                        !.hram_io[IO_LY] = 0,
                        !.counter.lcd_off_count = LcdOffCarry(g),
                        !.counter.lcd_count = 0]
                ELSE g1
      [] reg = IO_STAT -> WriteSTAT(g, val)
      [] reg = IO_BOOT -> WriteBOOT(g, val)
      [] OTHER -> g

\* cases 0x0 .. 0x7 of the switch on the high nibble of the address: the
\* MBC registers. Each of the first three cases falls through to the next
\* when it does not return.
MaskBank(g, bank) ==
    [g EXCEPT !.selected_rom_bank = And16(bank, g.num_rom_banks_mask)]

RamEnable(g, val) ==
    [g EXCEPT !.enable_cart_ram = IF val % 16 = 10 THEN 1 ELSE 0]

\* an MBC1 bank register that takes the whole byte written
Mbc1BankWholeByte(bank, val) == val

\* MBC1: (val & 0x1F) | (selected_rom_bank & 0x60)
Mbc1Bank(bank, val) == (val % 32) + And16(bank, 96)

\* an MBC1 that lets the low five bits be zero
Mbc1KeepZero(bank) == bank

\* MBC1: if((selected_rom_bank & 0x1F) == 0x00) selected_rom_bank++
Mbc1NotZero(bank) == IF bank % 32 = 0 THEN bank + 1 ELSE bank

\* case 0x3 and what falls through to it
WriteRomBank(g, addr, val) ==
    CASE g.mbc = 1 ->
            MaskBank(g, Mbc1NotZero(Mbc1Bank(g.selected_rom_bank, val)))
      [] g.mbc = 2 ->
            IF BitSet(addr, 256)
            THEN MaskBank(g, IF val % 16 = 0 THEN 1 ELSE val % 16)
            ELSE RamEnable(g, val)
      [] g.mbc = 3 ->
            LET bank == IF g.cart_is_mbc3O THEN val ELSE val % 128
            IN  MaskBank(g, IF bank = 0 THEN 1 ELSE bank)
      [] g.mbc = 5 ->
            MaskBank(g, (val % 2) * 256 + (g.selected_rom_bank % 256))
      [] OTHER -> MaskBank(g, g.selected_rom_bank)

\* case 0x2 and what falls through to it
WriteRomBankLow(g, addr, val) ==
    IF g.mbc = 5
    THEN MaskBank(g, And16(g.selected_rom_bank, 256) + val)
    ELSE WriteRomBank(g, addr, val)

\* cases 0x4 and 0x5
WriteRamBank(g, val) ==
    CASE g.mbc = 1 ->
            MaskBank([g EXCEPT !.cart_ram_bank = val % 4],
                     (val % 4) * 32 + (g.selected_rom_bank % 32))
      [] g.mbc = 3 ->
            [g EXCEPT !.cart_ram_bank =
                IF ~g.cart_is_mbc3O /\ val < 8 THEN val % 4 ELSE val]
      [] g.mbc = 5 ->
            [g EXCEPT !.cart_ram_bank = val % 16]
      [] OTHER -> g

\* an RTC latch that copies at every write of 1
LatchEdgeAlways(g, val) == g.mbc = 3 /\ val # 0

\* cases 0x6 and 0x7: the RTC latch condition, val already masked with 1
LatchEdge(g, val) == g.mbc = 3 /\ val # 0 /\ g.cart_mode_select = 0

\* cases 0x6 and 0x7
WriteModeSelect(g, val) ==
    LET g1 == IF LatchEdge(g, val % 2)
              THEN [g EXCEPT !.rtc_latched = g.rtc_real]
              ELSE g
    IN  [g1 EXCEPT !.cart_mode_select = val % 2]

GbWriteMbc(g, addr, val) ==
    CASE addr \div 4096 \in {0, 1} ->
            IF g.mbc > 0 /\ g.mbc # 2 /\ g.cart_ram # 0
            THEN RamEnable(g, val)
            ELSE WriteRomBankLow(g, addr, val)
      [] addr \div 4096 = 2 -> WriteRomBankLow(g, addr, val)
      [] addr \div 4096 = 3 -> WriteRomBank(g, addr, val)
      [] addr \div 4096 \in {4, 5} -> WriteRamBank(g, val)
      [] addr \div 4096 \in {6, 7} -> WriteModeSelect(g, val)

\* the host's gb_cart_ram_write: p->cart_ram[addr] = val
CartRamWrite(g, off, val) ==
    [g EXCEPT !.direct.priv.cart_ram = (off :> val) @@ @,
              !.direct.priv.cram_write = off,
              !.direct.priv.cram_writes = @ + 1]

\* the host's gb_cart_ram_read: [val, g], p->cart_ram[addr]
CartRamRead(g, off) ==
    [val |-> IF off \in DOMAIN g.direct.priv.cart_ram
             THEN g.direct.priv.cart_ram[off]
             ELSE g.direct.priv.save,
     g |-> [g EXCEPT !.direct.priv.cram_read = off]]

\* const uint8_t rtc_reg_mask[5]
rtc_reg_mask == <<63, 63, 31, 255, 193>>

\* whether the cart RAM bank register selects one of the five bytes of
\* union cart_rtc. The code tests cart_ram_bank >= 0x08 alone and indexes
\* bytes[cart_ram_bank - 0x08]: a bank number above 0x0C is an index past
\* the end of the union. A read there gives mem, the byte found; a write
\* lands in what follows rtc_real in struct gb_s, or outside the modelled
\* context (GbStepOverrun).
RtcSelected(g) == g.mbc = 3 /\ g.cart_ram_bank >= 8

\* whether the banked branch is taken
CramBanked(g) ==
    (g.mbc # 1 \/ g.cart_mode_select # 0) /\ g.cart_ram_bank < g.num_ram_banks

\* an MBC2 write that stores the byte as written
Mbc2StoredWhole(val) == val

\* MBC2: "Data is only 4 bits wide", "Upper nibble is set to high"
Mbc2Stored(val) == Or8(val % 16, 240)

\* cases 0xA and 0xB of __gb_write
GbWriteCram(g, addr, val) ==
    IF RtcSelected(g)
    THEN LET reg == g.cart_ram_bank - 8
         IN  IF reg < 5
             THEN [g EXCEPT !.rtc_real[reg + 1] = And8(val, rtc_reg_mask[reg + 1])]
             ELSE g
    ELSE IF g.cart_ram # 0 /\ g.enable_cart_ram # 0
    THEN IF g.mbc = 2
         THEN CartRamWrite(g, addr % 512, Mbc2Stored(val))
         ELSE IF CramBanked(g)
         THEN CartRamWrite(g, addr - CART_RAM_ADDR
                                 + g.cart_ram_bank * CRAM_BANK_SIZE, val)
         ELSE IF g.num_ram_banks # 0
         THEN CartRamWrite(g, addr - CART_RAM_ADDR, val)
         ELSE g
    ELSE g

GbWrite(g, addr, val) ==
    IF addr < VRAM_ADDR THEN GbWriteMbc(g, addr, val)
    ELSE IF CART_RAM_ADDR <= addr /\ addr < WRAM_0_ADDR THEN GbWriteCram(g, addr, val)
    ELSE IF addr < UNUSED_ADDR THEN g
    ELSE IF addr < IO_ADDR THEN g
    ELSE IF HRAM_ADDR <= addr /\ addr < INTR_EN_ADDR
    THEN [g EXCEPT !.hram_io[addr - IO_ADDR] = val]
    ELSE IF addr >= 65296 /\ addr <= 65343
    THEN [g EXCEPT !.hram_io[addr - IO_ADDR] = val]
    ELSE GbWriteIO(g, addr % 256, val)

(***************************************************************************)
(* __gb_read for 0x0000-0x7FFF: which callback the byte comes from and the *)
(* address the callback is given.                                          *)
(***************************************************************************)
GbReadRom(g, addr) ==
    IF addr < 256 /\ g.hram_io[IO_BOOT] = 0
    THEN [from |-> "gb_bootrom_read", addr |-> addr]
    ELSE IF addr < 4 * 4096
    THEN [from |-> "gb_rom_read", addr |-> addr]
    ELSE IF g.mbc = 1 /\ g.cart_mode_select # 0
    THEN [from |-> "gb_rom_read",
          addr |-> addr + ((g.selected_rom_bank % 32) - 1) * ROM_BANK_SIZE]
    ELSE [from |-> "gb_rom_read",
          addr |-> addr + (g.selected_rom_bank - 1) * ROM_BANK_SIZE]

\* cases 0xA and 0xB of __gb_read: [val, g]
GbReadCram(g, addr, mem) ==
    IF RtcSelected(g)
    THEN LET reg == g.cart_ram_bank - 8
         IN  [val |-> IF reg < 5 THEN g.rtc_latched[reg + 1] ELSE mem, g |-> g]
    ELSE IF g.cart_ram # 0 /\ g.enable_cart_ram # 0
    THEN IF g.mbc = 2
         THEN CartRamRead(g, addr % 512)
         ELSE IF CramBanked(g)
         THEN CartRamRead(g, addr - CART_RAM_ADDR
                                + g.cart_ram_bank * CRAM_BANK_SIZE)
         ELSE CartRamRead(g, addr - CART_RAM_ADDR)
    ELSE [val |-> 255, g |-> g]

\* static const uint8_t ortab[] of the build without sound, for 0xFF10 ..
\* 0xFF3F
ortab ==
    <<128, 63, 0, 255, 191, 255, 63, 0, 255, 191, 127, 255, 159, 255, 191,
      255, 255, 0, 0, 191, 0, 0, 112,
      255, 255, 255, 255, 255, 255, 255, 255, 255,
      0, 0, 0, 0, 0, 0, 0, 0, 0, 0, 0, 0, 0, 0, 0, 0>>

\* the host's gb_error: it saves cart RAM, prints the error and exits
GbError(g, code, addr) ==
    [g EXCEPT !.direct.priv.error = [addr |-> addr, code |-> code]]

\* the switch on the address of __gb_read and the ifs of its case 0xF: which
\* return statement an address ends at. After the switch, "Return address
\* that caused read error".
ReadCase(addr) ==
    LET msn == addr \div 4096
    IN  CASE msn \in 0 .. 7 -> "rom"
          [] msn \in {8, 9} -> "vram"
          [] msn \in {10, 11} -> "cart_ram"
          [] msn \in {12, 13} -> "wram"
          [] msn = 14 -> "echo"
          [] msn = 15 ->
                IF addr < OAM_ADDR THEN "echo"
                ELSE IF addr < UNUSED_ADDR THEN "oam"
                ELSE IF addr < IO_ADDR THEN "unusable"
                ELSE IF addr >= 65296 /\ addr <= 65343 THEN "apu"
                ELSE IF addr >= IO_ADDR THEN "hram_io"
                ELSE GB_INVALID_READ
          [] OTHER -> GB_INVALID_READ

\* __gb_read: [val, g, from], from naming the return statement. ROM outside
\* the header, VRAM, WRAM and OAM are not part of the modelled context: mem
\* is the byte that memory holds at addr. ortab has 48 entries and is indexed
\* from 0xFF00: from 0xFF30 up the read is past its end, and mem is what is
\* found there.
GbRead(g, addr, mem) ==
    LET from == ReadCase(addr)
    IN  CASE from = "cart_ram" ->
                LET rd == GbReadCram(g, addr, mem)
                IN  [val |-> rd.val, g |-> rd.g, from |-> from]
          [] from = "unusable" -> [val |-> 255, g |-> g, from |-> from]
          [] from = "apu" ->
                [val |-> Or8(g.hram_io[addr - IO_ADDR],
                             IF addr - IO_ADDR < Len(ortab)
                             THEN ortab[addr - IO_ADDR + 1] ELSE mem),
                 g |-> g, from |-> from]
          [] from = "hram_io" ->
                [val |-> g.hram_io[addr - IO_ADDR], g |-> g, from |-> from]
          [] from = GB_INVALID_READ ->
                [val |-> 255, g |-> GbError(g, GB_INVALID_READ, addr),
                 from |-> from]
          [] OTHER -> [val |-> mem, g |-> g, from |-> from]

(***************************************************************************)
(* gb_reset. r is the cartridge header, of which gb_reset reads the        *)
(* checksum byte. The flag register is the record of its four flag bits.   *)
(***************************************************************************)
\* a checksum test that takes every checksum byte for non-zero
HdrChkAlways(r) == 1

\* hdr_chk of gb_reset: whether the header checksum byte is not zero
HdrChk(r) == IF r[ROM_HEADER_CHECKSUM_LOC] # 0 THEN 1 ELSE 0

\* a reset that zeroes the CPU registers when a boot ROM is installed
PowerOnRegsZeroed(cpu) ==
    [a |-> 0, f |-> [z |-> 0, n |-> 0, h |-> 0, c |-> 0],
     bc |-> 0, de |-> 0, hl |-> 0, sp |-> 0, pc |-> 0]

\* the CPU registers in the branch of gb_reset for an installed boot ROM:
\* "CPU registers are uninitialised", PC is assigned
PowerOnRegs(cpu) == [cpu EXCEPT !.pc = 0]

GbResetOp(g, r) ==
    LET g1 == [g EXCEPT !.gb_halt = FALSE, !.gb_ime = TRUE,
                        !.selected_rom_bank = 1, !.cart_ram_bank = 0,
                        !.enable_cart_ram = 0, !.cart_mode_select = 0]
        g2 == IF ~g1.gb_bootrom_read
              THEN GbWrite(
                     [g1 EXCEPT
                        !.cpu_reg =
                            LET hdr_chk == HdrChk(r)
                            IN  [a |-> 1,
                                 f |-> [z |-> 1, n |-> 0, h |-> hdr_chk, c |-> hdr_chk],
                                 bc |-> 19, de |-> 216, hl |-> 333,
                                 sp |-> 65534, pc |-> 256],
                        !.hram_io[IO_DIV] = 171,
                        !.hram_io[IO_LCDC] = 145,
                        !.hram_io[IO_STAT] = 133,
                        !.hram_io[IO_BOOT] = 1],
                     65318, 241)
              ELSE [g1 EXCEPT
                        !.cpu_reg = PowerOnRegs(g1.cpu_reg),
                        !.hram_io[IO_DIV] = 0,
                        !.hram_io[IO_LCDC] = 0,
                        !.hram_io[IO_STAT] = 132,
                        !.hram_io[IO_BOOT] = 0]
        g3 == [g2 EXCEPT
                 !.counter = [lcd_count |-> 0, div_count |-> 0, tima_count |-> 0,
                              serial_count |-> 0, rtc_count |-> 0,
                              lcd_off_count |-> 0],
                 !.direct.joypad = 255,
                 !.hram_io[IO_JOYP] = 207,
                 !.hram_io[IO_SB] = 0,
                 !.hram_io[IO_SC] = 126,
                 !.hram_io[IO_TIMA] = 0,
                 !.hram_io[IO_TMA] = 0,
                 !.hram_io[IO_TAC] = 248,
                 !.hram_io[IO_IF] = 225,
                 !.hram_io[IO_SCY] = 0,
                 !.hram_io[IO_SCX] = 0,
                 !.hram_io[IO_LY] = 0,
                 !.hram_io[IO_LYC] = 0]
        g4 == GbWrite(GbWrite(GbWrite(g3, 65351, 252), 65352, 255), 65353, 255)
    IN  [g4 EXCEPT !.hram_io[IO_WY] = 0,
                   !.hram_io[IO_WX] = 0,
                   !.hram_io[IO_IE] = 0,
                   !.hram_io[IO_IF] = 225]

(***************************************************************************)
(* gb_init: [ret, g]. junk stands for what an out-of-range read of the ROM  *)
(* or RAM size table yields.                                               *)
(***************************************************************************)
GbInitOp(g, r, junk) ==
    LET g0 == [g EXCEPT !.gb_bootrom_read = FALSE]
        mbc_value == r[327]
    IN  IF HeaderChecksum(r) # r[ROM_HEADER_CHECKSUM_LOC]
        THEN [ret |-> GB_INIT_INVALID_CHECKSUM, g |-> g0]
        ELSE IF mbc_value > Len(cart_mbc) - 1
        THEN [ret |-> GB_INIT_CARTRIDGE_UNSUPPORTED, g |-> g0]
        ELSE IF cart_mbc[mbc_value + 1] = -1
        THEN [ret |-> GB_INIT_CARTRIDGE_UNSUPPORTED,
              g |-> [g0 EXCEPT !.mbc = -1]]
        ELSE
            LET mask == (TabRead(num_rom_banks_tab, r[328], junk) - 1) % 65536
                cram == cart_ram_tab[mbc_value + 1]
                banks == TabRead(num_ram_banks_tab, r[329], junk)
                noram == cram = 0 \/ banks = 0
                g1 == [g0 EXCEPT
                         !.mbc = cart_mbc[mbc_value + 1],
                         !.num_rom_banks_mask = mask,
                         !.cart_ram = IF noram THEN 0 ELSE cram,
                         !.num_ram_banks = IF noram THEN 0 ELSE banks]
                g2 == IF g1.mbc = 3
                      THEN [g1 EXCEPT !.cart_is_mbc3O =
                                mask > 128 \/ g1.num_ram_banks > 4]
                      ELSE g1
                g3 == [g2 EXCEPT !.lcd_blank = FALSE]
            IN  [ret |-> GB_INIT_NO_ERROR, g |-> GbResetOp(g3, r)]

(***************************************************************************)
(* __gb_step_cpu, first part: "Handle interrupts", the while at the top.   *)
(***************************************************************************)
\* IF & IE & m for one interrupt bit m
Pending(g, m) == BitSet(g.hram_io[IO_IF], m) /\ BitSet(g.hram_io[IO_IE], m)

\* the while's condition
InterruptEntry(g) ==
    g.gb_halt \/
    (g.gb_ime /\ And8(And8(g.hram_io[IO_IF], g.hram_io[IO_IE]), ANY_INTR) # 0)

\* "Call interrupt handler if required": the if / else-if chain
InterruptVector(g) ==
    IF Pending(g, VBLANK_INTR)
    THEN [g EXCEPT !.cpu_reg.pc = VBLANK_INTR_ADDR,
                   !.hram_io[IO_IF] = XorBit(g.hram_io[IO_IF], VBLANK_INTR)]
    ELSE IF Pending(g, LCDC_INTR)
    THEN [g EXCEPT !.cpu_reg.pc = LCDC_INTR_ADDR,
                   !.hram_io[IO_IF] = XorBit(g.hram_io[IO_IF], LCDC_INTR)]
    ELSE IF Pending(g, TIMER_INTR)
    THEN [g EXCEPT !.cpu_reg.pc = TIMER_INTR_ADDR,
                   !.hram_io[IO_IF] = XorBit(g.hram_io[IO_IF], TIMER_INTR)]
    ELSE IF Pending(g, SERIAL_INTR)
    THEN [g EXCEPT !.cpu_reg.pc = SERIAL_INTR_ADDR,
                   !.hram_io[IO_IF] = XorBit(g.hram_io[IO_IF], SERIAL_INTR)]
    ELSE IF Pending(g, CONTROL_INTR)
    THEN [g EXCEPT !.cpu_reg.pc = CONTROL_INTR_ADDR,
                   !.hram_io[IO_IF] = XorBit(g.hram_io[IO_IF], CONTROL_INTR)]
    ELSE g

\* a push that writes the low byte first
PushPCLowFirst(g) ==
    LET sp1 == (g.cpu_reg.sp - 1) % 65536
        sp2 == (g.cpu_reg.sp - 2) % 65536
        g1 == GbWrite([g EXCEPT !.cpu_reg.sp = sp1], sp1, g.cpu_reg.pc % 256)
    IN  GbWrite([g1 EXCEPT !.cpu_reg.sp = sp2], sp2, g.cpu_reg.pc \div 256)

\* "Push Program Counter": high byte, then low byte, through __gb_write
PushPC(g) ==
    LET sp1 == (g.cpu_reg.sp - 1) % 65536
        sp2 == (g.cpu_reg.sp - 2) % 65536
        g1 == GbWrite([g EXCEPT !.cpu_reg.sp = sp1], sp1, g.cpu_reg.pc \div 256)
    IN  GbWrite([g1 EXCEPT !.cpu_reg.sp = sp2], sp2, g.cpu_reg.pc % 256)

HandleInterrupts(g) ==
    IF InterruptEntry(g)
    THEN LET g1 == [g EXCEPT !.gb_halt = FALSE]
         IN  IF ~g1.gb_ime THEN g1
             ELSE InterruptVector(PushPC([g1 EXCEPT !.gb_ime = FALSE]))
    ELSE g

(***************************************************************************)
(* __gb_step_cpu, second part: fetch and execute one opcode. An            *)
(* instruction is a record: code is the opcode byte, imm its immediate     *)
(* operand (0 if none). The loads and the arithmetic that give register A  *)
(* its value are not among the opcodes modelled: the value A holds when    *)
(* LD (0xFF00+imm),A or LD (imm),A executes is an input, the field a of    *)
(* the instruction.                                                        *)
(***************************************************************************)
\* case 0x76: the cycles until the next event a halted CPU can wake on
HaltCycles(g) ==
    LET stat_mode == g.hram_io[IO_STAT] % 4
        h0 == INT_FAST16_MAX
        serial_cycles == SERIAL_CYCLES - g.counter.serial_count
        h1 == IF BitSet(g.hram_io[IO_SC], SERIAL_SC_TX_START) /\ serial_cycles < h0
              THEN serial_cycles ELSE h0
        tac_cycles == TAC_CYCLES[(g.hram_io[IO_TAC] % 4) + 1] - g.counter.tima_count
        h2 == IF BitSet(g.hram_io[IO_TAC], IO_TAC_ENABLE_MASK) /\ tac_cycles < h1
              THEN tac_cycles ELSE h1
        lcd_cycles ==
            CASE stat_mode = IO_STAT_MODE_HBLANK ->
                    LCD_MODE0_HBLANK_MAX_DRUATION - g.counter.lcd_count
              [] stat_mode = IO_STAT_MODE_OAM_SCAN ->
                    LCD_MODE3_LCD_DRAW_MIN_DURATION - g.counter.lcd_count
              [] stat_mode = IO_STAT_MODE_LCD_DRAW ->
                    LCD_MODE0_HBLANK_MAX_DRUATION - g.counter.lcd_count
              [] OTHER ->
                    LCD_LINE_CYCLES - g.counter.lcd_count
        h3 == IF BitSet(g.hram_io[IO_LCDC], LCDC_ENABLE) /\ lcd_cycles < h2
              THEN lcd_cycles ELSE h2
    IN  IF h3 <= 0 THEN 4 ELSE h3

\* the pc after the opcode byte and n operand bytes were read
PcAfter(g, n) == (g.cpu_reg.pc + 1 + n) % 65536

\* [g, cycles]: the context after the instruction, and inst_cycles
\* a ^ b on bytes
Xor8(a, b) == a + b - 2 * And8(a, b)

\* PGB_INSTR_ADC_R8(r, cin): A = A + r + cin with the flags of the sum
AdcR8(g, r, cin) ==
    LET temp == g.cpu_reg.a + r + cin
    IN  [g EXCEPT !.cpu_reg.f = [z |-> IF temp % 256 = 0 THEN 1 ELSE 0,
                                 n |-> 0,
                                 h |-> IF And8(Xor8(Xor8(g.cpu_reg.a, r), temp % 256), 16) > 0
                                       THEN 1 ELSE 0,
                                 c |-> IF temp \div 256 # 0 THEN 1 ELSE 0],
                  !.cpu_reg.a = temp % 256]

\* a carry flag that follows bit 8 of the adjusted value
DaaCarryFollows(c, a) == ((a % 65536) \div 256) % 2

\* case 0x27: "if((a & 0x100) == 0x100) f_bits.c = 1", a an int16_t
DaaCarry(c, a) == IF ((a % 65536) \div 256) % 2 = 1 THEN 1 ELSE c

\* case 0x27, DAA
Daa(g) ==
    LET f == g.cpu_reg.f
        a0 == g.cpu_reg.a
        a1 == IF f.n = 1
              THEN (IF f.h = 1 THEN (a0 - 6) % 256 ELSE a0)
              ELSE (IF f.h = 1 \/ a0 % 16 > 9 THEN a0 + 6 ELSE a0)
        a2 == IF f.n = 1
              THEN (IF f.c = 1 THEN a1 - 96 ELSE a1)
              ELSE (IF f.c = 1 \/ a1 > 159 THEN a1 + 96 ELSE a1)
    IN  [g EXCEPT !.cpu_reg.a = a2 % 256,
                  !.cpu_reg.f = [z |-> IF a2 % 256 = 0 THEN 1 ELSE 0,
                                 n |-> f.n, h |-> 0, c |-> DaaCarry(f.c, a2)]]

Execute(g, ins) ==
    CASE ins.code = 0 ->      \* NOP
            [g |-> [g EXCEPT !.cpu_reg.pc = PcAfter(g, 0)], cycles |-> 4]
      [] ins.code = 39 ->     \* DAA
            [g |-> Daa([g EXCEPT !.cpu_reg.pc = PcAfter(g, 0)]), cycles |-> 4]
      [] ins.code = 128 ->    \* ADD A, B
            [g |-> AdcR8([g EXCEPT !.cpu_reg.pc = PcAfter(g, 0)],
                         g.cpu_reg.bc \div 256, 0),
             cycles |-> 4]
      [] ins.code = 24 ->     \* JR imm
            [g |-> [g EXCEPT !.cpu_reg.pc = (PcAfter(g, 1) + ins.imm) % 65536],
             cycles |-> 12]
      [] ins.code = 49 ->     \* LD SP, imm
            [g |-> [g EXCEPT !.cpu_reg.pc = PcAfter(g, 2), !.cpu_reg.sp = ins.imm],
             cycles |-> 12]
      [] ins.code = 118 ->    \* HALT
            [g |-> [g EXCEPT !.cpu_reg.pc = PcAfter(g, 0), !.gb_halt = TRUE],
             cycles |-> HaltCycles(g)]
      [] ins.code = 224 ->    \* LD (0xFF00+imm), A
            [g |-> GbWrite([g EXCEPT !.cpu_reg.pc = PcAfter(g, 1),
                                     !.cpu_reg.a = ins.a],
                           65280 + ins.imm, ins.a),
             cycles |-> 12]
      [] ins.code = 234 ->    \* LD (imm), A
            [g |-> GbWrite([g EXCEPT !.cpu_reg.pc = PcAfter(g, 2),
                                     !.cpu_reg.a = ins.a],
                           ins.imm, ins.a),
             cycles |-> 16]
      [] ins.code = 250 ->    \* LD A, (imm)
            LET rd == GbRead([g EXCEPT !.cpu_reg.pc = PcAfter(g, 2)],
                             ins.imm, ins.a)
            IN  [g |-> [rd.g EXCEPT !.cpu_reg.a = rd.val], cycles |-> 16]
      [] ins.code = 243 ->    \* DI
            [g |-> [g EXCEPT !.cpu_reg.pc = PcAfter(g, 0), !.gb_ime = FALSE],
             cycles |-> 4]
      [] ins.code = 251 ->    \* EI
            [g |-> [g EXCEPT !.cpu_reg.pc = PcAfter(g, 0), !.gb_ime = TRUE],
             cycles |-> 4]

(***************************************************************************)
(* __gb_step_cpu, third part: the body of the do-while loop. The DIV block *)
(* acts on IO_DIV and div_count alone and the RTC block on rtc_real and    *)
(* rtc_count alone, and nothing else in the loop reads them: the           *)
(* specifications that do not observe DIV or the RTC run the body without  *)
(* that block.                                                             *)
(***************************************************************************)
\* the while loop of "DIV register timing"
RECURSIVE DivLoop(_)
DivLoop(g) ==
    IF g.counter.div_count >= DIV_CYCLES
    THEN DivLoop([g EXCEPT !.hram_io[IO_DIV] = (@ + 1) % 256,
                           !.counter.div_count = @ - DIV_CYCLES])
    ELSE g

\* "DIV register timing"
DivTick(g, cycles) ==
    DivLoop([g EXCEPT !.counter.div_count = @ + cycles])

\* an RTC field that stays at its illegal value
InvalidRolloverFrozen(field) == field

\* "Detect invalid rollover": what a field at 63 (seconds, minutes) or 31
\* (hours) becomes at its tick
InvalidRollover(field) == 0

\* one iteration of the while of "Check for RTC tick", after rtc_count was
\* decreased: rtc is <<sec, min, hour, yday, high>>
RtcSecond(rtc) ==
    LET sec == rtc[1]
        min == rtc[2]
        hour == rtc[3]
        yday == rtc[4]
        high == rtc[5]
    IN  IF sec = 63 THEN [rtc EXCEPT ![1] = InvalidRollover(sec)]
        ELSE IF (sec + 1) % 256 # 60 THEN [rtc EXCEPT ![1] = (sec + 1) % 256]
        ELSE IF min = 63 THEN [rtc EXCEPT ![1] = 0, ![2] = InvalidRollover(min)]
        ELSE IF (min + 1) % 256 # 60
        THEN [rtc EXCEPT ![1] = 0, ![2] = (min + 1) % 256]
        ELSE IF hour = 31
        THEN [rtc EXCEPT ![1] = 0, ![2] = 0, ![3] = InvalidRollover(hour)]
        ELSE IF (hour + 1) % 256 # 24
        THEN [rtc EXCEPT ![1] = 0, ![2] = 0, ![3] = (hour + 1) % 256]
        ELSE IF (yday + 1) % 256 # 0
        THEN [rtc EXCEPT ![1] = 0, ![2] = 0, ![3] = 0, ![4] = (yday + 1) % 256]
        ELSE [rtc EXCEPT ![1] = 0, ![2] = 0, ![3] = 0, ![4] = 0,
                         ![5] = XorBit(IF BitSet(high, 1) THEN OrBit(high, 128)
                                       ELSE high, 1)]

\* the while loop of "Check for RTC tick"
RECURSIVE RtcLoop(_)
RtcLoop(g) ==
    IF g.counter.rtc_count >= RTC_CYCLES
    THEN RtcLoop([g EXCEPT !.counter.rtc_count = @ - RTC_CYCLES,
                           !.rtc_real = RtcSecond(g.rtc_real)])
    ELSE g

\* "Check for RTC tick"
RtcTick(g, cycles) ==
    IF g.mbc = 3 /\ ~BitSet(g.rtc_real[5], 64)
    THEN RtcLoop([g EXCEPT !.counter.rtc_count = @ + cycles])
    ELSE g

\* a serial port that completes every transfer as the internal clock does
SerialNoPeripheralFF(g) ==
    [g EXCEPT !.hram_io[IO_SB] = 255,
              !.hram_io[IO_SC] = And8(g.hram_io[IO_SC], 1),
              !.hram_io[IO_IF] = OrBit(g.hram_io[IO_IF], SERIAL_INTR)]

\* "Check serial transmission.", a transfer's end when no byte was received:
\* the else-if and the else
SerialNoPeripheral(g) ==
    IF BitSet(g.hram_io[IO_SC], SERIAL_SC_CLOCK_SRC)
    THEN [g EXCEPT !.hram_io[IO_SB] = 255,
                   !.hram_io[IO_SC] = And8(g.hram_io[IO_SC], 1),
                   !.hram_io[IO_IF] = OrBit(g.hram_io[IO_IF], SERIAL_INTR)]
    ELSE g

\* "Check serial transmission." rx is what the host's gb_serial_rx does if it
\* is called: its return value and the byte it stores.
SerialTickRx(g, cycles, rx) ==
    IF BitSet(g.hram_io[IO_SC], SERIAL_SC_TX_START)
    THEN LET g1 == IF g.counter.serial_count = 0 /\ g.gb_serial_tx
                   THEN [g EXCEPT !.direct.priv.tx_calls = @ + 1]
                   ELSE g
             count == g.counter.serial_count + cycles
             g2 == IF g1.gb_serial_rx
                   THEN [g1 EXCEPT !.direct.priv.rx_calls = @ + 1,
                                   !.direct.priv.rx_ret = rx.ret]
                   ELSE g1
             g3 == IF g1.gb_serial_rx /\ rx.ret = GB_SERIAL_RX_SUCCESS
                   THEN [g2 EXCEPT
                           !.hram_io[IO_SB] = rx.byte,
                           !.hram_io[IO_SC] = And8(g.hram_io[IO_SC], 1),
                           !.hram_io[IO_IF] = OrBit(g.hram_io[IO_IF], SERIAL_INTR)]
                   ELSE SerialNoPeripheral(g2)
         IN  IF count >= SERIAL_CYCLES
             THEN [g3 EXCEPT !.counter.serial_count = 0]
             ELSE [g1 EXCEPT !.counter.serial_count = count]
    ELSE g

\* a gb_serial_rx that finds no peripheral
NoConnection == [ret |-> GB_SERIAL_RX_NO_CONNECTION, byte |-> 0]

\* the same where the callbacks are NULL, as gb_init leaves them
SerialTick(g, cycles) == SerialTickRx(g, cycles, NoConnection)

\* a timer that applies one increment at most in an iteration of the do-while
TimaLoopOnce(g) ==
    LET period == TAC_CYCLES[(g.hram_io[IO_TAC] % 4) + 1]
        tima == (g.hram_io[IO_TIMA] + 1) % 256
        g1 == [g EXCEPT !.counter.tima_count = g.counter.tima_count - period]
    IN  IF g.counter.tima_count >= period
        THEN IF tima = 0
             THEN [g1 EXCEPT
                     !.hram_io[IO_IF] = OrBit(g.hram_io[IO_IF], TIMER_INTR),
                     !.hram_io[IO_TIMA] = g.hram_io[IO_TMA]]
             ELSE [g1 EXCEPT !.hram_io[IO_TIMA] = tima]
        ELSE g

\* the while loop of "TIMA register timing"
RECURSIVE TimaLoop(_)
TimaLoop(g) ==
    LET period == TAC_CYCLES[(g.hram_io[IO_TAC] % 4) + 1]
        tima == (g.hram_io[IO_TIMA] + 1) % 256
        g1 == [g EXCEPT !.counter.tima_count = g.counter.tima_count - period]
    IN  IF g.counter.tima_count >= period
        THEN TimaLoop(IF tima = 0
                      THEN [g1 EXCEPT
                              !.hram_io[IO_IF] = OrBit(g.hram_io[IO_IF], TIMER_INTR),
                              !.hram_io[IO_TIMA] = g.hram_io[IO_TMA]]
                      ELSE [g1 EXCEPT !.hram_io[IO_TIMA] = tima])
        ELSE g

TimaTick(g, cycles) ==
    IF BitSet(g.hram_io[IO_TAC], IO_TAC_ENABLE_MASK)
    THEN TimaLoop([g EXCEPT !.counter.tima_count = g.counter.tima_count + cycles])
    ELSE g

\* STAT with its mode bits replaced
StatWithMode(stat, mode) == (stat \div 4) * 4 + mode

\* IF with LCDC_INTR requested whatever STAT holds
RequestLcdcAlways(g, m) ==
    [g EXCEPT !.hram_io[IO_IF] = OrBit(g.hram_io[IO_IF], LCDC_INTR)]

\* IF with LCDC_INTR requested when STAT has the enable bit m
RequestLcdc(g, m) ==
    IF BitSet(g.hram_io[IO_STAT], m)
    THEN [g EXCEPT !.hram_io[IO_IF] = OrBit(g.hram_io[IO_IF], LCDC_INTR)]
    ELSE g

\* "LYC Update"
LycUpdate(g) ==
    IF g.hram_io[IO_LY] = g.hram_io[IO_LYC]
    THEN RequestLcdc([g EXCEPT !.hram_io[IO_STAT] =
                                 OrBit(g.hram_io[IO_STAT], STAT_LYC_COINC)],
                     STAT_LYC_INTR)
    ELSE [g EXCEPT !.hram_io[IO_STAT] = ClrBit(g.hram_io[IO_STAT], STAT_LYC_COINC)]

\* a VBlank entry that requests no VBlank interrupt
\* "If frame skip is activated ..." and "If interlaced is activated ..."
VBlankDisplay(g) ==
    LET g1 == IF g.direct.frame_skip
              THEN [g EXCEPT !.display.frame_skip_count = ~g.display.frame_skip_count]
              ELSE g
    IN  IF g1.direct.interlace /\ (~g1.direct.frame_skip \/ g1.display.frame_skip_count)
        THEN [g1 EXCEPT !.display.interlace_count = ~g1.display.interlace_count]
        ELSE g1

\* the record frame_line starts again: no call since this VBlank entry
NoLineYet(g) == [g EXCEPT !.direct.priv.frame_line = -1]

VBlankEntryNoRequest(g) ==
    RequestLcdc([NoLineYet(VBlankDisplay(g)) EXCEPT
                   !.hram_io[IO_STAT] =
                       StatWithMode(g.hram_io[IO_STAT], IO_STAT_MODE_VBLANK),
                   !.gb_frame = TRUE,
                   !.lcd_blank = FALSE],
                STAT_MODE_1_INTR)

\* "Check if LCD should be in Mode 1 (VBLANK) state": the assignments made
\* when LY has become LCD_HEIGHT
VBlankEntry(g) ==
    RequestLcdc([NoLineYet(VBlankDisplay(g)) EXCEPT
                   !.hram_io[IO_STAT] =
                       StatWithMode(g.hram_io[IO_STAT], IO_STAT_MODE_VBLANK),
                   !.gb_frame = TRUE,
                   !.hram_io[IO_IF] = OrBit(g.hram_io[IO_IF], VBLANK_INTR),
                   !.lcd_blank = FALSE],
                STAT_MODE_1_INTR)

\* a next line that counts on to the end of the byte
NextLineNoWrap(ly) == (ly + 1) % 256

\* "Next line": LY + 1, and 0 after the last line
NextLine(ly) == IF ly + 1 = LCD_VERT_LINES THEN 0 ELSE ly + 1

\* "New Scanline": lcd_count >= LCD_LINE_CYCLES. [g, cycles, brk]
(***************************************************************************)
(* __gb_draw_line, as far as it changes the context and calls the host:    *)
(* the early returns, the window line counter and the call of              *)
(* lcd_draw_line with LY. The pixels are composed in DrawSprites.          *)
(***************************************************************************)
LCDC_WINDOW_ENABLE == 32

\* the condition of "draw window" and of the interlace compensation
WindowOnLine(g) ==
    /\ BitSet(g.hram_io[IO_LCDC], LCDC_WINDOW_ENABLE)
    /\ g.hram_io[IO_LY] >= g.display.WY
    /\ g.hram_io[IO_WX] <= 166

\* window_clear++ (a uint8_t)
WindowAdvance(g) ==
    [g EXCEPT !.display.window_clear = (g.display.window_clear + 1) % 256]

\* an interlace skip that leaves the window line counter alone
WindowCompensateNone(g) == g

\* "Compensate for missing window draw if required"
WindowCompensate(g) == IF WindowOnLine(g) THEN WindowAdvance(g) ELSE g

\* the line is one that interlacing leaves out
InterlaceSkips(g) ==
    /\ g.direct.interlace
    /\ \/ ~g.display.interlace_count /\ g.hram_io[IO_LY] % 2 = 0
       \/ g.display.interlace_count /\ g.hram_io[IO_LY] % 2 = 1

\* the host's lcd_draw_line: it keeps the line and inverts drawn;
\* frame_line is the line of the last call since the last VBlank entry
LcdDrawLine(g, line) ==
    [g EXCEPT !.direct.priv.line = line,
              !.direct.priv.frame_line = line,
              !.direct.priv.drawn = ~g.direct.priv.drawn]

GbDrawLineOp(g) ==
    IF ~g.display.lcd_draw_line THEN g
    ELSE IF g.direct.frame_skip /\ ~g.display.frame_skip_count THEN g
    ELSE IF InterlaceSkips(g) THEN WindowCompensate(g)
    ELSE LcdDrawLine(IF WindowOnLine(g) THEN WindowAdvance(g) ELSE g,
                     g.hram_io[IO_LY])

\* gb_init_lcd, with a lcd_draw_line of the host
GbInitLcd(g) ==
    [g EXCEPT !.display = [lcd_draw_line |-> TRUE, WY |-> 0, window_clear |-> 0,
                           interlace_count |-> FALSE, frame_skip_count |-> FALSE],
              !.direct.interlace = FALSE, !.direct.frame_skip = FALSE]

\* "Clear Screen": at line 0 WY is latched and the window line counter
\* starts again
ClearScreen(g) ==
    IF g.hram_io[IO_LY] = 0
    THEN [g EXCEPT !.display.WY = g.hram_io[IO_WY], !.display.window_clear = 0]
    ELSE g

NewScanline(g, cycles) ==
    LET ly == NextLine(g.hram_io[IO_LY])
        g1 == LycUpdate([g EXCEPT
                           !.counter.lcd_count = g.counter.lcd_count - LCD_LINE_CYCLES,
                           !.hram_io[IO_LY] = ly])
    IN  IF ly = LCD_HEIGHT
        THEN [g |-> VBlankEntry(g1), cycles |-> cycles,
              brk |-> g.gb_halt /\ g.hram_io[IO_IE] = 0]
        ELSE IF ly < LCD_HEIGHT
        THEN LET g2 == [ClearScreen(g1) EXCEPT
                          !.hram_io[IO_STAT] =
                              StatWithMode(g1.hram_io[IO_STAT], IO_STAT_MODE_OAM_SCAN),
                          !.counter.lcd_count = 0]
             IN  [g |-> RequestLcdc(g2, STAT_MODE_2_INTR),
                  cycles |-> LCD_MODE2_OAM_SCAN_DURATION, brk |-> FALSE]
        ELSE [g |-> g1, cycles |-> cycles, brk |-> FALSE]

\* a draw whether lcd_blank is set or not
DrawAlways(g) == GbDrawLineOp(g)

\* "if(!gb->lcd_blank) __gb_draw_line(gb)"
DrawUnlessBlank(g) == IF ~g.lcd_blank THEN GbDrawLineOp(g) ELSE g

\* "If LCD is off ..." and "LCD Timing". [g, cycles, brk]: the context, the
\* value of inst_cycles and whether the loop was left by break
LcdTick(g, cycles) ==
    IF ~BitSet(g.hram_io[IO_LCDC], LCDC_ENABLE)
    THEN LET off == g.counter.lcd_off_count + cycles
         IN  [g |-> IF off >= LCD_FRAME_CYCLES
                    THEN [g EXCEPT !.counter.lcd_off_count = off - LCD_FRAME_CYCLES,
                                   !.gb_frame = TRUE]
                    ELSE [g EXCEPT !.counter.lcd_off_count = off],
              cycles |-> cycles, brk |-> FALSE]
    ELSE
        LET g1 == [g EXCEPT !.counter.lcd_count = g.counter.lcd_count + cycles]
            count == g1.counter.lcd_count
            stat_mode == g1.hram_io[IO_STAT] % 4
        IN  IF count >= LCD_LINE_CYCLES
            THEN NewScanline(g1, cycles)
            ELSE IF stat_mode = IO_STAT_MODE_LCD_DRAW /\ count >= LCD_MODE3_LCD_DRAW_END
            THEN [g |-> RequestLcdc(
                          [g1 EXCEPT !.hram_io[IO_STAT] =
                              StatWithMode(g1.hram_io[IO_STAT], IO_STAT_MODE_HBLANK)],
                          STAT_MODE_0_INTR),
                  cycles |-> IF count < LCD_MODE0_HBLANK_MAX_DRUATION
                             THEN LCD_MODE0_HBLANK_MAX_DRUATION - count ELSE cycles,
                  brk |-> FALSE]
            ELSE IF stat_mode = IO_STAT_MODE_OAM_SCAN /\ count >= LCD_MODE2_OAM_SCAN_END
            THEN [g |-> DrawUnlessBlank(
                          [g1 EXCEPT !.hram_io[IO_STAT] =
                              StatWithMode(g1.hram_io[IO_STAT], IO_STAT_MODE_LCD_DRAW)]),
                  cycles |-> IF count < LCD_MODE3_LCD_DRAW_MIN_DURATION
                             THEN LCD_MODE3_LCD_DRAW_MIN_DURATION - count ELSE cycles,
                  brk |-> FALSE]
            ELSE [g |-> g1, cycles |-> cycles, brk |-> FALSE]

\* one iteration of the loop body, without the DIV block
TimingBody(g, cycles) == LcdTick(TimaTick(SerialTick(g, cycles), cycles), cycles)

\* one iteration of the loop body with serial callbacks
TimingBodySerial(g, cycles, rx) ==
    LcdTick(TimaTick(SerialTickRx(g, cycles, rx), cycles), cycles)

\* one iteration of the loop body, with the DIV block
TimingBodyDiv(g, cycles) == TimingBody(DivTick(g, cycles), cycles)

\* one iteration of the loop body, with the RTC block
TimingBodyRtc(g, cycles) == TimingBody(RtcTick(g, cycles), cycles)

\* "while(gb->gb_halt && (IF & IE) == 0)", after a body that did not break
HaltLoopAgain(g) ==
    g.gb_halt /\ And8(g.hram_io[IO_IF], g.hram_io[IO_IE]) = 0

(***************************************************************************)
(* The guest program. Its code is an input: a fetch from an address not    *)
(* fetched before may return any instruction of the set a specification    *)
(* allows, as long as the program counter stays within the number of bytes *)
(* after an entry point that the specification allows. ROM does not        *)
(* change: a fetch from an address fetched before returns the same         *)
(* instruction again.                                                      *)
(***************************************************************************)
Ins(code, imm, a) == [a |-> a, code |-> code, imm |-> imm]

NOP == Ins(0, 0, 0)
JR(e8) == Ins(24, e8, 0)
LD_SP(d16) == Ins(49, d16, 0)
HALT == Ins(118, 0, 0)
LDH(a8, a) == Ins(224, a8, a)
LD_A16(a16, a) == Ins(234, a16, a)
LD_A_A16(a16) == Ins(250, a16, 0)
DI == Ins(243, 0, 0)
DAA == Ins(39, 0, 0)
ADD_A_B == Ins(128, 0, 0)
EI == Ins(251, 0, 0)

\* where execution starts after reset, and the five interrupt vectors
ResetEntry == 256

Vectors ==
    {VBLANK_INTR_ADDR, LCDC_INTR_ADDR, TIMER_INTR_ADDR, SERIAL_INTR_ADDR,
     CONTROL_INTR_ADDR}

\* whether p is within n bytes after 0x0100 or within MaxHandler bytes after
\* an interrupt vector
InProg(p, n) ==
    \/ ResetEntry <= p /\ p <= ResetEntry + n
    \/ \E e \in Vectors : e <= p /\ p <= e + MaxHandler

\* the guest code the boot ROM callback gives is kept apart from the
\* cartridge's: the instruction at boot ROM address a is prog[BootBase + a]
BootBase == 65536

ProgAddrs ==
    {p \in 0 .. 511 : InProg(p, MaxProg) \/ InProg(p, MaxMbcProg)
                        \/ InProg(p, MaxRamProg) \/ InProg(p, MaxGateProg)
                        \/ InProg(p, MaxRtcProg) \/ InProg(p, MaxOpcodeProg)
                        \/ InProg(p, MaxOffProg) \/ InProg(p, MaxPpuProg)
                        \/ InProg(p, MaxIfProg) \/ InProg(p, MaxDaaProg)
                        \/ InProg(p, MaxWinProg) \/ InProg(p, MaxJoypProg)
                        \/ InProg(p, MaxBankProg)
                        \/ InProg(p, MaxDrawProg)
                        \/ InProg(p, MaxTransferProg)}
    \cup (0 .. MaxBoot) \cup {BootBase + a : a \in 0 .. MaxBoot}

\* where the opcode at pc is fetched from
FetchKey(g) ==
    LET src == GbReadRom(g, g.cpu_reg.pc)
    IN  IF src.from = "gb_bootrom_read" THEN BootBase + src.addr ELSE src.addr

NoIns == Ins(-1, 0, 0)

NoProg == [p \in ProgAddrs |-> NoIns]

(***************************************************************************)
(* Actions.                                                                *)
(***************************************************************************)
\* the host calls gb_init
GbInit(junk) ==
    /\ loc = "start"
    /\ LET r == GbInitOp(gb, rom, junk)
       IN  /\ gb' = r.g
           /\ init_ret' = r.ret
           /\ loc' = IF r.ret = GB_INIT_NO_ERROR THEN "idle" ELSE "failed"
    /\ UNCHANGED <<rom, prog, inst_cycles, elapsed>>

\* the host calls gb_reset between frames
GbReset ==
    /\ loc = "idle"
    /\ gb' = GbResetOp(gb, rom)
    /\ UNCHANGED <<rom, prog, loc, init_ret, inst_cycles, elapsed>>

\* the host calls gb_run_frame: gb_frame = false, and the while is entered;
\* the host forgets the line it drew last
GbRunFrame ==
    /\ loc = "idle"
    /\ gb' = [gb EXCEPT !.gb_frame = FALSE, !.direct.priv.line = -1]
    /\ loc' = "step"
    /\ elapsed' = 0
    /\ UNCHANGED <<rom, prog, init_ret, inst_cycles>>

\* __gb_step_cpu, "Handle interrupts"
GbStepInterrupts ==
    /\ loc = "step"
    /\ gb' = HandleInterrupts(gb)
    /\ loc' = "fetch"
    /\ UNCHANGED <<rom, prog, init_ret, inst_cycles, elapsed>>

\* __gb_step_cpu, "Obtain opcode" and the switch that executes it: the ROM
\* that is mapped at pc holds the instruction ins there, and the guest stays
\* within n bytes of its entry points, or, if low, within MaxBoot bytes of
\* address 0x0000. The observer elapsed starts again at a store to the I/O
\* register watch (-1: at none).
GbStepCpuOp(ins, n, low, watch) ==
    /\ loc = "fetch"
    /\ LET r == Execute(gb, ins)
           at == FetchKey(gb)
       IN  /\ at \in ProgAddrs
           /\ prog[at] \in {NoIns, ins}
           /\ InProg(r.g.cpu_reg.pc, n) \/ (low /\ r.g.cpu_reg.pc <= MaxBoot)
           /\ prog' = [prog EXCEPT ![at] = ins]
           /\ gb' = r.g
           /\ inst_cycles' = r.cycles
    /\ loc' = "timing"
    /\ elapsed' = IF ins.code = 224 /\ ins.imm = watch THEN 0 ELSE elapsed
    /\ UNCHANGED <<rom, init_ret>>

GbStepCpu(ins, n) == GbStepCpuOp(ins, n, FALSE, -1)

\* a gb_run_frame that returns after one step, whatever gb_frame is
AfterStepReturn(g) == "idle"

\* where control is after the do-while ends: __gb_step_cpu returns into the
\* while(!gb->gb_frame) of gb_run_frame
AfterStep(g) == IF g.gb_frame THEN "idle" ELSE "step"

\* one iteration of the do-while of __gb_step_cpu and its loop test; counted
\* says whether the observer elapsed is kept
GbStepTimingDo(r, counted) ==
    /\ loc = "timing"
    /\ LET again == ~r.brk /\ HaltLoopAgain(r.g)
       IN  /\ gb' = r.g
           /\ loc' = IF again THEN "timing" ELSE AfterStep(r.g)
           /\ inst_cycles' = IF again THEN r.cycles ELSE 0
    /\ elapsed' = IF counted THEN elapsed + inst_cycles ELSE elapsed
    /\ UNCHANGED <<rom, prog, init_ret>>

GbStepTimingOp(counted) == GbStepTimingDo(TimingBody(gb, inst_cycles), counted)

GbStepTiming == GbStepTimingOp(FALSE)

GbStepTimingCounted == GbStepTimingOp(TRUE)

\* the same where the host's gb_serial_rx does rx if it is called
GbStepTimingSerial(rx) ==
    GbStepTimingDo(TimingBodySerial(gb, inst_cycles, rx), TRUE)

\* the same with the DIV block
GbStepTimingDiv == GbStepTimingDo(TimingBodyDiv(gb, inst_cycles), TRUE)

\* the same with the RTC block
GbStepTimingRtc == GbStepTimingDo(TimingBodyRtc(gb, inst_cycles), TRUE)

(***************************************************************************)
(* Specifications. Every specification but SpecInit starts in the state a  *)
(* successful gb_init leaves: the context after gb_reset, no boot ROM.     *)
(***************************************************************************)
\* the header of a 32 KiB cartridge without MBC, all title bytes 0
DefaultRom == Header(0, 0, 0, 0, 231)

Init ==
    /\ rom = DefaultRom
    /\ prog = NoProg
    /\ gb = GbInitOp(BlankGb, DefaultRom, 0).g
    /\ loc = "idle"
    /\ init_ret = GB_INIT_NO_ERROR
    /\ inst_cycles = 0
    /\ elapsed = 0

(***************************************************************************)
(* Spec: the PPU. The guest loops, halts, switches the LCD off and on,     *)
(* writes STAT and clears the interrupt flags; IE stays 0.                 *)
(***************************************************************************)
LcdProgram ==
    {JR(-2), HALT}
    \cup {LDH(IO_LCDC, v) : v \in {17, 145}}
    \cup {LDH(IO_STAT, v) : v \in {120}}
    \cup {LDH(IO_IF, v) : v \in {0}}

Next ==
    \/ GbRunFrame
    \/ GbStepInterrupts
    \/ \E ins \in LcdProgram : GbStepCpu(ins, MaxLoopProg)
    \/ GbStepTiming

Spec == Init /\ [][Next]_vars

\* what the claims read of the context
LcdOn(g) == BitSet(g.hram_io[IO_LCDC], LCDC_ENABLE)
Mode(g) == g.hram_io[IO_STAT] % 4
Line(g) == g.hram_io[IO_LY]
VBlankRequested(g) == BitSet(g.hram_io[IO_IF], VBLANK_INTR)

\* C2: with the LCD on, a transition that makes LY 144 sets frame_ready and the
\* VBlank bit of IF and makes the STAT mode 1; and a transition that sets
\* frame_ready or the VBlank bit of IF is one that makes LY 144.
C2_VBlankEntryOnly ==
    [][LcdOn(gb) =>
        /\ (Line(gb') = 144 /\ Line(gb) # 144) =>
              gb'.gb_frame /\ VBlankRequested(gb') /\ Mode(gb') = 1
        /\ ((gb'.gb_frame /\ ~gb.gb_frame) \/
            (VBlankRequested(gb') /\ ~VBlankRequested(gb))) =>
              /\ Line(gb) = 143 /\ Line(gb') = 144
              /\ gb'.gb_frame /\ VBlankRequested(gb') /\ Mode(gb') = 1]_vars

\* C2 witness: the frame has ended at LY 144 in mode 1 with the VBlank bit of
\* IF set, in a run whose guest had cleared IF
C2_WitnessVBlankEntered ==
    /\ loc = "idle" /\ LcdOn(gb) /\ gb.gb_frame
    /\ Line(gb) = 144 /\ Mode(gb) = 1
    /\ gb.hram_io[IO_IF] = 225
    /\ \E p \in ProgAddrs : prog[p] = LDH(IO_IF, 0)

\* whether mode m is the mode of line cycle count c on a visible line
PhaseMode(c) == IF c < 80 THEN 2 ELSE IF c < 252 THEN 3 ELSE 0

AtStepBoundary == loc \in {"idle", "step"}

\* C6 as stated: at every step boundary with the LCD on, the STAT mode is the
\* mode of the line phase on lines 0-143 and 1 on lines 144-153.
C6_ModeMatchesPhase ==
    (AtStepBoundary /\ LcdOn(gb)) =>
        Mode(gb) = IF Line(gb) < 144 THEN PhaseMode(gb.counter.lcd_count) ELSE 1

\* C6, amended: at every step boundary with the LCD on, the line cycle counter
\* is below 456, the STAT mode is 1 on lines 144-153 and the mode of the line
\* phase on lines 1-143. On line 0 it is the mode of the line phase, or 1 (the
\* line that follows reset, which leaves STAT in mode 1 at LY 0), or 0 while
\* lcd_blank is set (the line that follows the guest switching the LCD on).
C6_ModeMatchesPhaseButLine0 ==
    (AtStepBoundary /\ LcdOn(gb)) =>
        /\ gb.counter.lcd_count < 456
        /\ Line(gb) \in 144 .. 153 => Mode(gb) = 1
        /\ Line(gb) \in 1 .. 143 => Mode(gb) = PhaseMode(gb.counter.lcd_count)
        /\ Line(gb) = 0 =>
              \/ Mode(gb) = PhaseMode(gb.counter.lcd_count)
              \/ Mode(gb) = 1
              \/ Mode(gb) = 0 /\ gb.lcd_blank

\* C6 witness: a step boundary on the first line after the guest switched the
\* LCD on, in mode 0 during what would be the OAM scan
C6_WitnessFirstLineAfterLcdOn ==
    /\ loc = "step" /\ LcdOn(gb) /\ gb.lcd_blank
    /\ Line(gb) = 0 /\ Mode(gb) = 0
    /\ gb.counter.lcd_count \in 1 .. 79

\* C7: the STAT mode bits change only along 2->3, 3->0, 0->2 (to the start of
\* a visible line), 0->1 (to LY 144) and 1->2 (to the start of a visible line),
\* each in one iteration of the timing loop, or to 0 when the guest clears
\* LCDC.ENABLE; the execution of any other instruction, a STAT write included,
\* leaves them as they are.
C7_ModeEdges ==
    [][Mode(gb') # Mode(gb) =>
        \/ /\ loc = "timing" /\ LcdOn(gb)
           /\ \/ Mode(gb) = 2 /\ Mode(gb') = 3
              \/ Mode(gb) = 3 /\ Mode(gb') = 0
              \/ /\ Mode(gb) \in {0, 1} /\ Mode(gb') = 2
                 /\ Line(gb') < 144 /\ gb'.counter.lcd_count = 0
              \/ Mode(gb) = 0 /\ Mode(gb') = 1 /\ Line(gb') = 144
        \/ /\ loc = "fetch" /\ LcdOn(gb) /\ ~LcdOn(gb')
           /\ Mode(gb') = 0]_vars

\* C7 witness: the guest has written STAT in mode 1 and the mode bits are
\* still 1, and it has halted and the PPU has gone on to mode 3
C7_WitnessStatWrittenHalted ==
    /\ loc = "timing" /\ gb.gb_halt /\ Mode(gb) = 3
    /\ BitSet(gb.hram_io[IO_STAT], STAT_MODE_0_INTR)
    /\ prog[256] = LDH(IO_STAT, 120)

\* IF & IE & 0x1F, as the claims about interrupts read it
PendingEnabled(if, ie) == And8(And8(if, ie), 31)

\* the step starts with IME set and an interrupt pending and enabled
Serviceable(g) ==
    g.gb_ime /\ PendingEnabled(g.hram_io[IO_IF], g.hram_io[IO_IE]) # 0

\* C3: the interrupt check at the top of a step that does not start with IME
\* set and (IF & IE & 0x1F) # 0 leaves SP, PC, IME, IF and the stack (all of
\* the register file and HRAM) unchanged, also in the step that wakes the CPU
\* from HALT.
C3_ServiceOnlyIfPending ==
    [][(loc = "step" /\ ~Serviceable(gb)) =>
        /\ gb'.cpu_reg = gb.cpu_reg
        /\ gb'.gb_ime = gb.gb_ime
        /\ gb'.hram_io = gb.hram_io]_vars

\* C5: a halted CPU goes on to fetch an opcode only in a step that starts with
\* (IF & IE & 0x1F) # 0, and with IME clear that step dispatches nothing: it
\* leaves PC and SP as they are.
C5_HaltedUntilWake ==
    [][(loc = "step" /\ gb.gb_halt) =>
        /\ loc' = "fetch" =>
              PendingEnabled(gb.hram_io[IO_IF], gb.hram_io[IO_IE]) # 0
        /\ ~gb.gb_ime => gb'.cpu_reg = gb.cpu_reg]_vars

(***************************************************************************)
(* SpecIntr: interrupt service. The guest sets the stack pointer, IE and   *)
(* IF and enables interrupts; it neither loops nor halts.                  *)
(***************************************************************************)
IntrProgram ==
    {EI, LD_SP(0), LD_SP(65297)}
    \cup {LDH(IO_IE, v) : v \in {1, 6}}
    \cup {LDH(IO_IF, v) : v \in {6}}

NextIntr ==
    \/ GbRunFrame
    \/ GbStepInterrupts
    \/ \E ins \in IntrProgram : GbStepCpu(ins, MaxProg)
    \/ GbStepTiming

SpecIntr == Init /\ [][NextIntr]_vars

\* the source of x # 0 that comes first in the order VBlank, LCDC, Timer,
\* Serial, Joypad, as its IF bit, and the vector of a source
FirstSource(x) == CHOOSE m \in {1, 2, 4, 8, 16} :
    BitSet(x, m) /\ \A k \in {1, 2, 4, 8, 16} : BitSet(x, k) => m <= k

VectorOf(m) ==
    CASE m = 1 -> 64 [] m = 2 -> 72 [] m = 4 -> 80 [] m = 8 -> 88 [] m = 16 -> 96

\* the byte the push of pc at sp (high byte to sp - 1, low byte to sp - 2)
\* writes to addr, or none if it writes elsewhere
Pushed(g, addr, none) ==
    IF (g.cpu_reg.sp - 1) % 65536 = addr THEN g.cpu_reg.pc \div 256
    ELSE IF (g.cpu_reg.sp - 2) % 65536 = addr THEN g.cpu_reg.pc % 256
    ELSE none

\* the push has left pc on the stack, as far as the stack is in HRAM
PushedInHram(g, h) ==
    \A a \in 65408 .. 65534 :
        Pushed(g, a, -1) # -1 => h.hram_io[a - 65280] = Pushed(g, a, -1)

\* C4 as stated: a step that starts with IME set and (IF & IE & 0x1F) # 0
\* clears IME, pushes the old PC high byte first (SP decreases by 2), sets PC
\* to the vector of the first pending-and-enabled source in the order VBlank,
\* LCDC, Timer, Serial, Joypad, and clears that source's IF bit and no other.
C4_ServicesFirstPending ==
    [][(loc = "step" /\ Serviceable(gb)) =>
        LET m == FirstSource(PendingEnabled(gb.hram_io[IO_IF], gb.hram_io[IO_IE]))
        IN  /\ ~gb'.gb_ime
            /\ gb'.cpu_reg.sp = (gb.cpu_reg.sp - 2) % 65536
            /\ PushedInHram(gb, gb')
            /\ gb'.cpu_reg.pc = VectorOf(m)
            /\ gb'.hram_io[IO_IF] = gb.hram_io[IO_IF] - m]_vars

\* C4, amended: a step that starts with IME set and (IF & IE & 0x1F) # 0
\* clears IME and pushes the old PC high byte first, through the same write
\* path as any store (SP decreases by 2): a byte pushed to 0xFFFF replaces IE
\* and a byte pushed to 0xFF0F replaces the low five bits of IF. PC then
\* becomes the vector of the source that comes first in the order VBlank,
\* LCDC, Timer, Serial, Joypad among those pending and enabled after the push,
\* and that source's IF bit alone is cleared; if the push has left none, PC
\* and IF stay as the push left them.
C4_ServicesFirstPendingAfterPush ==
    [][(loc = "step" /\ Serviceable(gb)) =>
        LET ie == Pushed(gb, 65535, gb.hram_io[IO_IE])
            if == Or8(Pushed(gb, 65295, gb.hram_io[IO_IF]), 224)
            x == PendingEnabled(if, ie)
        IN  /\ ~gb'.gb_ime
            /\ gb'.cpu_reg.sp = (gb.cpu_reg.sp - 2) % 65536
            /\ PushedInHram(gb, gb')
            /\ gb'.hram_io[IO_IE] = ie
            /\ x # 0 => /\ gb'.cpu_reg.pc = VectorOf(FirstSource(x))
                        /\ gb'.hram_io[IO_IF] = if - FirstSource(x)
            /\ x = 0 => /\ gb'.cpu_reg.pc = gb.cpu_reg.pc
                        /\ gb'.hram_io[IO_IF] = if]_vars

\* C4 witness: the LCDC interrupt has been serviced while the timer interrupt
\* was pending and enabled too: PC is the LCDC vector, IME is clear, the old
\* PC 0x0104 lies on the stack at 0xFFFC, and the timer bit of IF is still set
C4_WitnessLcdcServicedTimerPending ==
    /\ loc = "fetch" /\ ~gb.gb_ime
    /\ gb.cpu_reg.sp = 65532 /\ gb.cpu_reg.pc = LCDC_INTR_ADDR
    /\ gb.hram_io[253] = 1 /\ gb.hram_io[252] = 4
    /\ gb.hram_io[IO_IE] = 6 /\ gb.hram_io[IO_IF] = 228

(***************************************************************************)
(* SpecFair: the emulator keeps running. The guest loops, halts and        *)
(* enables the timer interrupt (the timer is off after reset); whatever    *)
(* the program counter, a jump to itself may be the next instruction, so   *)
(* the guest never leaves its code. The weak fairness of NextFair says     *)
(* that the host and the emulator's loops do not stop while a step of      *)
(* theirs is possible.                                                     *)
(***************************************************************************)
FairProgram ==
    {JR(-2), HALT}
    \cup {LDH(IO_IE, v) : v \in {4}}

NextFair ==
    \/ GbRunFrame
    \/ GbStepInterrupts
    \/ \E ins \in FairProgram : GbStepCpu(ins, MaxLoopProg)
    \/ GbStepTiming

SpecFair == Init /\ [][NextFair]_vars /\ WF_vars(NextFair)

\* C1: every call of gb_run_frame returns: whenever the emulator is inside
\* gb_run_frame, it is eventually back in the host.
C1_RunFrameReturns == (loc # "idle") ~> (loc = "idle")

(***************************************************************************)
(* SpecBudget: the first frame after reset. The host calls gb_run_frame    *)
(* only on the context gb_reset leaves, and may reset between frames; the  *)
(* guest executes NOP, loops and halts, and the cycles handed to the       *)
(* timing loop are counted in elapsed.                                     *)
(***************************************************************************)
BudgetProgram == {NOP, JR(-2), HALT}

RunFirstFrame ==
    /\ gb = GbResetOp(gb, rom)
    /\ GbRunFrame

NextBudget ==
    \/ RunFirstFrame
    \/ GbReset
    \/ GbStepInterrupts
    \/ \E ins \in BudgetProgram : GbStepCpu(ins, MaxLoopProg)
    \/ GbStepTimingCounted

SpecBudget == Init /\ [][NextBudget]_vars

MaxCartType == 33

CartTypes == (0 .. MaxCartType) \cup {255}

\* the byte that makes the header's checksum right
RightChecksum(t, ty, bk, rm) == HeaderChecksum(Header(t, ty, bk, rm, 0))

\* headers with a right and with a wrong checksum byte; the ROM size codes 9
\* and the RAM size code 6 lie past the end of gb_init's tables
Headers ==
    {Header(t, ty, bk, rm, (RightChecksum(t, ty, bk, rm) + d) % 256) :
        t \in {0, 77}, ty \in CartTypes, bk \in {0, 8, 9}, rm \in {0, 3, 6},
        d \in {0, 1}}

\* what a read past the end of a table may yield
JunkValues == {0, 255}

InitHeaders ==
    /\ rom \in Headers
    /\ prog = NoProg
    /\ gb = BlankGb
    /\ loc = "start"
    /\ init_ret = "none"
    /\ inst_cycles = 0
    /\ elapsed = 0

NextInit == \E junk \in JunkValues : GbInit(junk)

SpecInit == InitHeaders /\ [][NextInit]_vars

\* the header checksum equation, in closed form: the loop subtracts every byte
\* of 0x0134 .. 0x014C and 1 for each of these 25 bytes
RECURSIVE HeaderSum(_, _)
HeaderSum(r, i) == IF i > 332 THEN 0 ELSE r[i] + HeaderSum(r, i + 1)

ChecksumEquation(r) == (HeaderSum(r, 308) + 25 + r[333]) % 256 = 0

\* the cartridge types the type table gives no MBC for
UnsupportedTypes == {4, 7, 10, 14, 20, 21, 22, 23, 24, 31}

\* the MBC kind of a supported cartridge type
KindOfType(ty) ==
    CASE ty \in 1 .. 3 -> 1
      [] ty \in 5 .. 6 -> 2
      [] ty \in 15 .. 19 -> 3
      [] ty \in 25 .. 30 -> 5
      [] OTHER -> 0

\* C9 as stated: gb_init succeeds if and only if the header checksum equation
\* holds.
C9_SuccessIffChecksum ==
    init_ret # "none" =>
        (init_ret = GB_INIT_NO_ERROR <=> ChecksumEquation(rom))

\* C9, amended: gb_init returns GB_INIT_INVALID_CHECKSUM if and only if the
\* header checksum equation fails, and it succeeds only if the equation holds;
\* a header the equation holds for is still refused, as an unsupported
\* cartridge, when the type table gives no MBC for its type byte.
C9_ChecksumDecidesInvalid ==
    init_ret # "none" =>
        /\ init_ret = GB_INIT_INVALID_CHECKSUM <=> ~ChecksumEquation(rom)
        /\ init_ret = GB_INIT_NO_ERROR => ChecksumEquation(rom)
        /\ (ChecksumEquation(rom) /\ rom[327] \in UnsupportedTypes)
               => init_ret = GB_INIT_CARTRIDGE_UNSUPPORTED

\* C9 witness: gb_init has refused a header whose checksum equation holds
C9_WitnessRightChecksumRefused ==
    /\ init_ret = GB_INIT_CARTRIDGE_UNSUPPORTED
    /\ ChecksumEquation(rom)
    /\ rom[327] = 4

\* C10: gb_init gives every header exactly one result: invalid checksum when
\* the equation fails, whatever the type byte; else unsupported cartridge
\* exactly when the type byte is above 0x1F or one of 0x04, 0x07, 0x0A, 0x0E,
\* 0x14-0x18, 0x1F; else success with the MBC kind of the type table. gb_reset
\* runs only on success: after a failure the registers and the CPU state are
\* as they were, after success they are the reset state.
C10_InitClassifies ==
    init_ret # "none" =>
        /\ init_ret =
             (IF ~ChecksumEquation(rom) THEN GB_INIT_INVALID_CHECKSUM
              ELSE IF rom[327] > 31 \/ rom[327] \in UnsupportedTypes
              THEN GB_INIT_CARTRIDGE_UNSUPPORTED
              ELSE GB_INIT_NO_ERROR)
        /\ init_ret = GB_INIT_NO_ERROR =>
             /\ gb.mbc = KindOfType(rom[327])
             /\ gb.gb_ime /\ gb.cpu_reg.sp = 65534 /\ gb.cpu_reg.pc = 256
             /\ gb.hram_io[IO_LCDC] = 145 /\ gb.hram_io[IO_IF] = 225
        /\ init_ret # GB_INIT_NO_ERROR =>
             /\ ~gb.gb_ime /\ gb.cpu_reg = BlankGb.cpu_reg
             /\ gb.hram_io = BlankGb.hram_io /\ gb.counter = BlankGb.counter

\* C10 witness: gb_init has accepted an MBC5 cartridge and reset the context
C10_WitnessMbc5Accepted ==
    /\ init_ret = GB_INIT_NO_ERROR
    /\ rom[327] = 27
    /\ gb.mbc = 5
    /\ gb.cpu_reg.pc = 256

(***************************************************************************)
(* SpecReset: gb_init, gb_set_bootrom and gb_reset between frames. The host *)
(* initialises the context for a cartridge without MBC whose header        *)
(* checksum byte is zero or not, runs frames of a guest that stores to     *)
(* HRAM and loops, installs or removes a boot ROM, and resets. The code of *)
(* a boot ROM is not modelled: frames run while the boot ROM is not mapped.*)
(***************************************************************************)
\* gb_set_bootrom: the callback pointer is stored, nothing else
GbSetBootromOp(g, fn) == [g EXCEPT !.gb_bootrom_read = fn]

\* the host calls gb_set_bootrom between frames; fn: the pointer is not NULL
GbSetBootrom(fn) ==
    /\ loc = "idle"
    /\ gb' = GbSetBootromOp(gb, fn)
    /\ UNCHANGED <<rom, prog, loc, init_ret, inst_cycles, elapsed>>

\* the host calls gb_run_frame while the guest's code comes from the cartridge
GbRunFrameCartridge ==
    /\ gb.hram_io[IO_BOOT] # 0
    /\ GbRunFrame

\* the header above with title byte 0xE7, whose checksum byte is 0
ZeroChecksumRom == Header(231, 0, 0, 0, 0)

ResetProgram == {JR(-2), LDH(128, 66)}

InitReset ==
    /\ rom \in {DefaultRom, ZeroChecksumRom}
    /\ prog = NoProg
    /\ gb = BlankGb
    /\ loc = "start"
    /\ init_ret = "none"
    /\ inst_cycles = 0
    /\ elapsed = 0

NextReset ==
    \/ GbInit(0)
    \/ \E fn \in BOOLEAN : GbSetBootrom(fn)
    \/ GbReset
    \/ GbRunFrameCartridge
    \/ GbStepInterrupts
    \/ \E ins \in ResetProgram : GbStepCpu(ins, MaxLoopProg)
    \/ GbStepTiming

SpecReset == InitReset /\ [][NextReset]_vars

\* the F register as PUSH AF composes it from the flag bits
FlagsByte(f) == f.z * 128 + f.n * 64 + f.h * 32 + f.c * 16

\* the post-boot DMG values of the registers and I/O registers
PostBootDMG(g, r) ==
    /\ g.cpu_reg.a = 1
    /\ FlagsByte(g.cpu_reg.f) = (IF r[333] # 0 THEN 176 ELSE 128)
    /\ g.cpu_reg.bc = 19 /\ g.cpu_reg.de = 216 /\ g.cpu_reg.hl = 333
    /\ g.cpu_reg.sp = 65534 /\ g.cpu_reg.pc = 256
    /\ g.hram_io[IO_DIV] = 171 /\ g.hram_io[IO_LCDC] = 145
    /\ g.hram_io[IO_STAT] = 133 /\ g.hram_io[IO_BOOT] = 1
    /\ g.hram_io[IO_BGP] = 252
    /\ g.hram_io[IO_OBP0] = 255 /\ g.hram_io[IO_OBP1] = 255

\* C11: a gb_init that succeeds, and every gb_reset while no boot ROM is
\* installed, leaves A=0x01, F=0xB0 if rom[0x014D] is not 0 and 0x80 if it is,
\* BC=0x0013, DE=0x00D8, HL=0x014D, SP=0xFFFE, PC=0x0100, DIV=0xAB, LCDC=0x91,
\* STAT=0x85, BOOT=0x01, BGP=0xFC and OBP0=OBP1=0xFF.
C11_PostBootAfterInitAndReset ==
    [][((GbInit(0) /\ init_ret' = GB_INIT_NO_ERROR)
         \/ (GbReset /\ ~gb.gb_bootrom_read))
        => PostBootDMG(gb', rom)]_vars

\* C11 witness: the guest has stored 0x42 from A to HRAM in a frame, and a
\* later gb_reset without boot ROM has put A, F and PC back to the post-boot
\* values on a cartridge whose checksum byte is 0
C11_WitnessResetAfterGuestRan ==
    /\ loc = "idle" /\ ~gb.gb_bootrom_read
    /\ rom[333] = 0
    /\ \E p \in ProgAddrs : prog[p] = LDH(128, 66)
    /\ gb.hram_io[128] = 66
    /\ gb.cpu_reg.a = 1 /\ FlagsByte(gb.cpu_reg.f) = 128
    /\ gb.cpu_reg.pc = 256

\* the CPU registers other than PC
RegsButPc(cpu) == <<cpu.a, FlagsByte(cpu.f), cpu.bc, cpu.de, cpu.hl, cpu.sp>>

\* C13 as stated: every gb_reset with a boot ROM installed leaves A, F, BC,
\* DE, HL and SP zero and PC = 0x0000.
C13_BootResetZeroesRegisters ==
    [][(GbReset /\ gb.gb_bootrom_read) =>
        /\ RegsButPc(gb'.cpu_reg) = <<0, 0, 0, 0, 0, 0>>
        /\ gb'.cpu_reg.pc = 0]_vars

\* C13, amended: every gb_reset with a boot ROM installed leaves PC = 0x0000
\* and leaves A, F, BC, DE, HL and SP as they were before the reset.
C13_BootResetKeepsRegisters ==
    [][(GbReset /\ gb.gb_bootrom_read) =>
        /\ RegsButPc(gb'.cpu_reg) = RegsButPc(gb.cpu_reg)
        /\ gb'.cpu_reg.pc = 0]_vars

\* C13 witness: after a reset with a boot ROM installed (boot ROM mapped,
\* PC = 0) A still holds the 0x42 the guest had loaded and SP is 0xFFFE
C13_WitnessGuestValueSurvives ==
    /\ loc = "idle" /\ gb.gb_bootrom_read
    /\ gb.hram_io[IO_BOOT] = 0 /\ gb.cpu_reg.pc = 0
    /\ gb.cpu_reg.a = 66 /\ gb.cpu_reg.sp = 65534

\* the context of a second host that has only called gb_init for the same
\* cartridge and gb_set_bootrom with the same setting
FreshContext(r, fn) == GbSetBootromOp(GbInitOp(BlankGb, r, 0).g, fn)

\* the context as the next gb_run_frame finds it: gb_frame is assigned before
\* it is read
BeforeFrame(g) == [g EXCEPT !.gb_frame = FALSE]

\* C14: gb_reset leaves a context that has run guest code in the state it
\* leaves a context with the same cartridge and the same boot-ROM setting
\* that has run nothing.
C14_ResetForgetsHistory ==
    [][GbReset =>
        BeforeFrame(gb') =
            BeforeFrame(GbResetOp(FreshContext(rom, gb.gb_bootrom_read), rom))]_vars

(***************************************************************************)
(* SpecBoot: the boot ROM mapping. The host installs a boot ROM and resets *)
(* between frames; the guest, in the boot ROM from 0x0000 and in the       *)
(* cartridge, stores to BOOT (0xFF50) and to SCY, and loops. The host does *)
(* not take the boot ROM callback away again (a fetch through a NULL       *)
(* callback would end the process).                                        *)
(***************************************************************************)
BootProgram == {JR(-2), LDH(IO_BOOT, 0), LDH(IO_BOOT, 255), LDH(IO_SCY, 0)}

\* bytes of guest code that may follow 0x0100 in SpecBoot
MaxBootProg == 2

NextBoot ==
    \/ GbSetBootrom(TRUE)
    \/ GbReset
    \/ GbRunFrame
    \/ GbStepInterrupts
    \/ \E ins \in BootProgram : GbStepCpuOp(ins, MaxBootProg, TRUE, -1)
    \/ GbStepTiming

SpecBoot == Init /\ [][NextBoot]_vars

\* addresses read in the claim's ranges: both ends of 0x0000-0x00FF and of
\* 0x0100-0x3FFF
LowReads == {0, 255}
Bank0Reads == {256, 16383}

FromBootRom(g, a) == GbReadRom(g, a) = [from |-> "gb_bootrom_read", addr |-> a]
FromRomBank0(g, a) == GbReadRom(g, a) = [from |-> "gb_rom_read", addr |-> a]

\* the step executes a store to 0xFF50
StoresToBoot ==
    /\ loc = "fetch"
    /\ prog'[FetchKey(gb)].code = 224
    /\ prog'[FetchKey(gb)].imm = IO_BOOT

\* the step is a call of gb_reset
ResetStep == loc = "idle" /\ loc' = "idle" /\ GbReset

\* C12: a gb_reset with a boot ROM installed makes reads of 0x0000-0x00FF come
\* from the boot ROM; they keep coming from it over every step that is not a
\* store to 0xFF50 or a reset; a store of any value to 0xFF50 makes them come
\* from ROM bank 0, and from then on only a reset changes that; reads of
\* 0x0100-0x3FFF come from ROM bank 0 in every state.
C12_BootRomUntilBootWrite ==
    [][/\ (ResetStep /\ gb.gb_bootrom_read) =>
              \A a \in LowReads : FromBootRom(gb', a)
       /\ (~ResetStep /\ ~StoresToBoot) =>
              \A a \in LowReads : FromBootRom(gb, a) => FromBootRom(gb', a)
       /\ StoresToBoot => \A a \in LowReads : FromRomBank0(gb', a)
       /\ ~ResetStep =>
              \A a \in LowReads : FromRomBank0(gb, a) => FromRomBank0(gb', a)
       /\ \A a \in Bank0Reads : FromRomBank0(gb, a) /\ FromRomBank0(gb', a)]_vars

\* C12 witness: after a reset with a boot ROM the guest, fetched from the
\* boot ROM at 0x0000, has stored 0 to 0xFF50 and has gone on at 0x0002 in
\* the cartridge, from where reads of 0x0000-0x00FF now come
C12_WitnessBootRomHidden ==
    /\ gb.gb_bootrom_read
    /\ prog[BootBase] = LDH(IO_BOOT, 0)
    /\ prog[2] = JR(-2)
    /\ gb.cpu_reg.pc = 2
    /\ \A a \in LowReads : FromRomBank0(gb, a)

(***************************************************************************)
(* SpecDiv: the divider in the first frame after reset. The guest executes *)
(* NOP, stores to DIV (0xFF04), loops and halts. elapsed counts the cycles *)
(* handed to the timing loop since the frame began or, after a store to    *)
(* DIV, since that store (the cycles of the store instruction included).   *)
(***************************************************************************)
DivProgram == {NOP, LDH(IO_DIV, 7), JR(-2), HALT}

NextDiv ==
    \/ RunFirstFrame
    \/ GbStepInterrupts
    \/ \E ins \in DivProgram : GbStepCpuOp(ins, MaxLoopProg, FALSE, IO_DIV)
    \/ GbStepTimingDiv

SpecDiv == Init /\ [][NextDiv]_vars

\* the guest has executed a store to DIV: the code runs straight on from
\* 0x0100, and a store to DIV lies before pc
DivWritten ==
    \E p \in ResetEntry .. ResetEntry + MaxProg :
        /\ p < gb.cpu_reg.pc
        /\ prog[p].code = 224 /\ prog[p].imm = IO_DIV

\* C15: after a store to DIV, DIV is the number of whole 256 T-cycle periods
\* since the store (0 before 256 T-cycles have elapsed, 1 from then to 512),
\* whatever had elapsed before the store; without a store DIV is the reset
\* value 0xAB plus one per 256 T-cycles, modulo 256.
C15_DivCountsFromWrite ==
    gb.hram_io[IO_DIV] =
        (IF DivWritten THEN elapsed \div DIV_CYCLES
         ELSE 171 + (elapsed \div DIV_CYCLES)) % 256

\* without a store to DIV, DIV is 0xAB plus one per 256 T-cycles, modulo 256
DivFreeRunning ==
    ~DivWritten => gb.hram_io[IO_DIV] = (171 + (elapsed \div DIV_CYCLES)) % 256

(***************************************************************************)
(* SpecTimer: the timer in the first frame after reset. The guest stores   *)
(* to TMA, TIMA and TAC (each rate, enabled, and disabled), loops and      *)
(* halts. elapsed counts the cycles handed to the timing loop since the    *)
(* frame began or, after a store to TAC, since that store.                 *)
(***************************************************************************)
TimerProgram ==
    {JR(-2), HALT, LDH(IO_TMA, 171), LDH(IO_TIMA, 255)}
    \cup {LDH(IO_TAC, v) : v \in {1, 4, 5, 6, 7}}

NextTimer ==
    \/ RunFirstFrame
    \/ GbStepInterrupts
    \/ \E ins \in TimerProgram : GbStepCpuOp(ins, MaxLoopProg, FALSE, IO_TAC)
    \/ GbStepTimingCounted

SpecTimer == Init /\ [][NextTimer]_vars

\* the T-cycles per increment that TAC bits 0-1 select
TimaPeriod(tac) ==
    CASE tac % 4 = 0 -> 1024
      [] tac % 4 = 1 -> 16
      [] tac % 4 = 2 -> 64
      [] tac % 4 = 3 -> 256

\* TIMA after k increments from t with modulo tma: past 0xFF it takes tma
TimaAfter(t, k, tma) ==
    IF t + k < 256 THEN t + k ELSE tma + ((t + k - 256) % (256 - tma))

TimerRequested(g) == BitSet(g.hram_io[IO_IF], TIMER_INTR)

TimerEnabled(g) == BitSet(g.hram_io[IO_TAC], IO_TAC_ENABLE_MASK)

\* an iteration of the timing loop: with TAC bit 2 clear TIMA and the timer
\* request stay; with it set, the cycles of the iteration and those left over
\* from earlier ones make one increment per period, every one of them applied,
\* and the timer is requested exactly if TIMA passed 0xFF
TimaStep ==
    loc = "timing" =>
        LET period == TimaPeriod(gb.hram_io[IO_TAC])
            total == gb.counter.tima_count + inst_cycles
            k == total \div period
        IN  IF TimerEnabled(gb)
            THEN /\ gb'.hram_io[IO_TIMA] =
                        TimaAfter(gb.hram_io[IO_TIMA], k, gb.hram_io[IO_TMA])
                 /\ gb'.counter.tima_count = total % period
                 /\ TimerRequested(gb') <=>
                        (TimerRequested(gb) \/ gb.hram_io[IO_TIMA] + k >= 256)
            ELSE /\ gb'.hram_io[IO_TIMA] = gb.hram_io[IO_TIMA]
                 /\ TimerRequested(gb') <=> TimerRequested(gb)

\* the guest's second instruction has enabled the timer, its first was a
\* store to another register, and it has executed no store since
EnabledOnce ==
    /\ gb.cpu_reg.pc > ResetEntry + 2
    /\ prog[ResetEntry].code = 224 /\ prog[ResetEntry].imm # IO_TAC
    /\ prog[ResetEntry + 2].code = 224 /\ prog[ResetEntry + 2].imm = IO_TAC
    /\ prog[ResetEntry + 2].a >= 4
    /\ \A p \in ResetEntry + 4 .. ResetEntry + MaxProg : prog[p].code # 224

\* since the store that enabled the timer, TIMA has had one increment per
\* period of the T-cycles elapsed, from the value and with the modulo the
\* first store left
TimaSinceEnable ==
    EnabledOnce =>
        LET first == prog[ResetEntry]
            t0 == IF first.imm = IO_TIMA THEN first.a ELSE 0
            tma == IF first.imm = IO_TMA THEN first.a ELSE 0
            k == elapsed \div TimaPeriod(gb.hram_io[IO_TAC])
        IN  /\ gb.hram_io[IO_TIMA] = TimaAfter(t0, k, tma)
            /\ TimerRequested(gb) <=> t0 + k >= 256

\* C16: while TAC bit 2 is set TIMA increments once per 1024, 16, 64 or 256
\* T-cycles as TAC bits 0-1 select, and not while it is clear; an increment
\* past 0xFF gives TIMA the value of TMA and sets IF bit 2 in the same step; a
\* step that spans several periods applies every increment.
C16_TimaCountsPeriods == []TimaSinceEnable /\ [][TimaStep]_vars

\* C16 witness: with TMA = 0xAB and TAC = 0x05 the timing step of a jump has
\* taken TIMA from 0xFF to 0xAB and requested the timer, 4096 T-cycles after
\* the store that enabled the timer
C16_WitnessReloadedFromTma ==
    /\ loc = "step" /\ elapsed \in 4096 .. 4111
    /\ prog[ResetEntry] = LDH(IO_TMA, 171)
    /\ prog[ResetEntry + 2] = LDH(IO_TAC, 5)
    /\ prog[ResetEntry + 4] = JR(-2)
    /\ gb.hram_io[IO_TIMA] = 171
    /\ TimerRequested(gb)

(***************************************************************************)
(* SpecSerial: the serial port in the first frame after reset. The host    *)
(* may install serial callbacks (either, both or none) before the frame;   *)
(* its gb_serial_rx receives the byte 0x42 or finds no connection. The     *)
(* guest stores to SC (transfer start with the internal and with the       *)
(* external clock), loops and halts.                                       *)
(***************************************************************************)
\* gb_init_serial
GbInitSerialOp(g, tx, rx) == [g EXCEPT !.gb_serial_tx = tx, !.gb_serial_rx = rx]

\* the host calls gb_init_serial before the first frame; tx, rx: the pointer
\* is not NULL
GbInitSerial(tx, rx) ==
    /\ loc = "idle"
    /\ gb = GbResetOp(gb, rom)
    /\ gb' = GbInitSerialOp(gb, tx, rx)
    /\ UNCHANGED <<rom, prog, loc, init_ret, inst_cycles, elapsed>>

Priv(g) == g.direct.priv

RxOutcomes == {NoConnection, [ret |-> GB_SERIAL_RX_SUCCESS, byte |-> 66]}

SerialProgram == {JR(-2), HALT, LDH(IO_SC, 128), LDH(IO_SC, 129)}

\* calls of gb_serial_rx after which the peripheral stays away
MaxRxTries == 2

\* the host's gb_serial_rx is not called, or does rx
GbStepTimingPeripheral(rx) ==
    /\ rx.ret = GB_SERIAL_RX_SUCCESS => Priv(gb).rx_calls < MaxRxTries
    /\ GbStepTimingSerial(rx)

NextSerial ==
    \/ \E tx, rx \in BOOLEAN : GbInitSerial(tx, rx)
    \/ RunFirstFrame
    \/ GbStepInterrupts
    \/ \E ins \in SerialProgram : GbStepCpuOp(ins, MaxLoopProg, FALSE, IO_SC)
    \/ \E rx \in RxOutcomes : GbStepTimingPeripheral(rx)

SpecSerial == Init /\ [][NextSerial]_vars

TransferStarted(g) == BitSet(g.hram_io[IO_SC], SERIAL_SC_TX_START)
SerialRequested(g) == BitSet(g.hram_io[IO_IF], SERIAL_INTR)

\* in this step the host's gb_serial_rx was called and returned ret
RxReturned(ret) ==
    /\ gb.gb_serial_rx
    /\ Priv(gb').rx_calls = Priv(gb).rx_calls + 1
    /\ Priv(gb').rx_ret = ret

\* in this step no byte came from a peripheral: there is no gb_serial_rx, or
\* it was called and found no connection
NoPeripheral ==
    \/ ~gb.gb_serial_rx /\ Priv(gb').rx_calls = Priv(gb).rx_calls
    \/ RxReturned(GB_SERIAL_RX_NO_CONNECTION)

\* C17: an iteration of the timing loop with SC bit 7 clear calls no serial
\* callback and leaves SB, SC and IF bit 3; with SC bit 7 set it leaves them
\* until 4096 T-cycles have accumulated, and the iteration that reaches 4096
\* ends the transfer in exactly one of three ways: a byte was received, SB is
\* that byte, SC bit 7 is clear and IF bit 3 set; no peripheral and SC bit 0
\* set, SB is 0xFF, SC bit 7 is clear and IF bit 3 set; no peripheral and SC
\* bit 0 clear, SB, SC and IF bit 3 are as before.
C17_SerialOutcomes ==
    [][loc = "timing" =>
        LET count == gb.counter.serial_count + inst_cycles
            same == /\ gb'.hram_io[IO_SB] = gb.hram_io[IO_SB]
                    /\ gb'.hram_io[IO_SC] = gb.hram_io[IO_SC]
                    /\ SerialRequested(gb') <=> SerialRequested(gb)
            internal == BitSet(gb.hram_io[IO_SC], SERIAL_SC_CLOCK_SRC)
        IN  IF ~TransferStarted(gb)
            THEN same /\ Priv(gb') = Priv(gb)
                      /\ gb'.counter.serial_count = gb.counter.serial_count
            ELSE IF count < SERIAL_CYCLES
            THEN same /\ Priv(gb').rx_calls = Priv(gb).rx_calls
                      /\ gb'.counter.serial_count = count
            ELSE /\ gb'.counter.serial_count = 0
                 /\ \/ /\ RxReturned(GB_SERIAL_RX_SUCCESS)
                       /\ gb'.hram_io[IO_SB] = 66
                       /\ ~TransferStarted(gb') /\ SerialRequested(gb')
                    \/ /\ NoPeripheral /\ internal
                       /\ gb'.hram_io[IO_SB] = 255
                       /\ ~TransferStarted(gb') /\ SerialRequested(gb')
                    \/ /\ NoPeripheral /\ ~internal
                       /\ same]_vars

\* C17 witness: a transfer the guest started with the external clock has ended
\* with the byte 0x42 received, after an earlier try found no connection
C17_WitnessReceivedOnExternalClock ==
    /\ \E p \in ProgAddrs : prog[p] = LDH(IO_SC, 128)
    /\ gb.gb_serial_tx /\ gb.gb_serial_rx
    /\ Priv(gb).tx_calls = 2 /\ Priv(gb).rx_calls = 2
    /\ Priv(gb).rx_ret = GB_SERIAL_RX_SUCCESS
    /\ gb.hram_io[IO_SB] = 66
    /\ ~TransferStarted(gb) /\ SerialRequested(gb)

(***************************************************************************)
(* SpecMbc: the MBC registers. gb_init on cartridges without MBC and with  *)
(* MBC1, MBC2, MBC3 and MBC5, without and with cartridge RAM, of every ROM *)
(* size code of the table and of one past its end; then the guest stores   *)
(* to 0x0000-0x7FFF with LD (a16),A, as many times as fit in MaxMbcProg    *)
(* bytes.                                                                  *)
(***************************************************************************)
MbcTypes == {0, 1, 3, 5, 17, 19, 25, 27}

MbcHeaders ==
    {Header(0, ty, bk, rm, RightChecksum(0, ty, bk, rm)) :
        ty \in MbcTypes, bk \in 0 .. 9, rm \in {0, 3, 4}}

MbcProgram ==
    {LD_A16(0, 10), LD_A16(12288, 1), LD_A16(24576, 1)}
    \cup {LD_A16(8192, v) : v \in {0, 4, 32, 128, 255}}
    \cup {LD_A16(8448, v) : v \in {0, 16}}
    \cup {LD_A16(16384, v) : v \in {1, 3}}

InitMbc ==
    /\ rom \in MbcHeaders
    /\ prog = NoProg
    /\ gb = BlankGb
    /\ loc = "start"
    /\ init_ret = "none"
    /\ inst_cycles = 0
    /\ elapsed = 0

NextMbc ==
    \/ \E junk \in JunkValues : GbInit(junk)
    \/ GbRunFrame
    \/ GbStepInterrupts
    \/ \E ins \in MbcProgram : GbStepCpuOp(ins, MaxMbcProg, FALSE, -1)
    \/ GbStepTiming

SpecMbc == InitMbc /\ [][NextMbc]_vars

Initialised == init_ret = GB_INIT_NO_ERROR

\* the ROM size code of the header is one of the table of gb_init
RomSizeInTable == rom[328] < Len(num_rom_banks_tab)

BankInMask(g) ==
    And16(g.selected_rom_bank, g.num_rom_banks_mask) = g.selected_rom_bank

\* C18: in every state of an initialised context, selected_rom_bank &
\* num_rom_banks_mask = selected_rom_bank.
C18_BankWithinMask == Initialised => BankInMask(gb)

\* the same for the headers whose ROM size code is in the table
BankWithinMaskInTable == (Initialised /\ RomSizeInTable) => BankInMask(gb)

\* a cartridge with MBC1, MBC2 or MBC3, where bank 0 is illegal at
\* 0x4000-0x7FFF
Bank0Illegal(g) == g.mbc \in {1, 2, 3}

\* the bank a read of 0x4000 comes from
WindowBank(g) == GbReadRom(g, 16384).addr \div ROM_BANK_SIZE

\* C19 as stated: on MBC1, MBC2 and MBC3 cartridges of 2 to 512 banks, after
\* every instruction selected_rom_bank & num_rom_banks_mask is not 0 and reads
\* of 0x4000-0x7FFF do not come from ROM bank 0.
C19_NeverBank0 ==
    (Initialised /\ RomSizeInTable /\ Bank0Illegal(gb) /\ AtStepBoundary) =>
        /\ And16(gb.selected_rom_bank, gb.num_rom_banks_mask) # 0
        /\ WindowBank(gb) # 0

\* the cartridge has at least as many banks as the bank register of its MBC
\* can name: 32 on MBC1, 16 on MBC2, 128 on MBC3 and 256 on MBC3 with the
\* whole byte as bank number
MaskCoversRegister(g) ==
    CASE g.mbc = 1 -> And16(g.num_rom_banks_mask, 31) = 31
      [] g.mbc = 2 -> And16(g.num_rom_banks_mask, 15) = 15
      [] g.mbc = 3 -> IF g.cart_is_mbc3O
                      THEN And16(g.num_rom_banks_mask, 255) = 255
                      ELSE And16(g.num_rom_banks_mask, 127) = 127
      [] OTHER -> FALSE

\* C19, amended: on MBC1, MBC2 and MBC3 cartridges that have at least as many
\* banks as the bank register can name, after every instruction
\* selected_rom_bank & num_rom_banks_mask is not 0 and reads of 0x4000-0x7FFF
\* do not come from ROM bank 0.
C19_NeverBank0IfMaskCovers ==
    (Initialised /\ RomSizeInTable /\ MaskCoversRegister(gb) /\ AtStepBoundary) =>
        /\ And16(gb.selected_rom_bank, gb.num_rom_banks_mask) # 0
        /\ WindowBank(gb) # 0

\* C19 witness: on an MBC1 cartridge of 128 banks in banking mode 1 the guest
\* has stored 0x20 to 0x2000, and bank 1 is selected
C19_WitnessZeroPromoted ==
    /\ Initialised /\ gb.mbc = 1 /\ gb.num_rom_banks_mask = 127
    /\ loc = "step"
    /\ prog[ResetEntry] = LD_A16(24576, 1)
    /\ prog[ResetEntry + 3] = LD_A16(8192, 32)
    /\ gb.cpu_reg.pc = ResetEntry + 6
    /\ gb.cart_mode_select = 1
    /\ gb.selected_rom_bank = 1 /\ WindowBank(gb) = 1

\* the step executes LD (a16),A with the value a in A
Stores(a16, a) ==
    /\ loc = "fetch"
    /\ prog'[FetchKey(gb)] = LD_A16(a16, a)

\* an MBC1 cartridge with num_rom_banks_mask = 0x7F
Mbc1Of128Banks(g) == g.mbc = 1 /\ g.num_rom_banks_mask = 127

\* C20 as stated: on an MBC1 cartridge with num_rom_banks_mask = 0x7F, after a
\* store of 0x00 to 0x2000 reads of 0x4000-0x7FFF come from ROM bank 1, and
\* after a store of 0x20 to 0x2000 they come from ROM bank 0x21.
C20_Write20SelectsBank21 ==
    [][Mbc1Of128Banks(gb) =>
        /\ Stores(8192, 0) => WindowBank(gb') = 1
        /\ Stores(8192, 32) => WindowBank(gb') = 33]_vars

\* C20, amended: on an MBC1 cartridge with num_rom_banks_mask = 0x7F a store
\* of 0x00 or of 0x20 to 0x2000 makes the low five bits of the selected bank 1
\* and leaves bits 5-6 as the last store to 0x4000 left them (0 after reset):
\* reads of 0x4000-0x7FFF then come from that bank in banking mode 0, which is
\* bank 1 after reset and bank 0x21 after a store of 0x01 to 0x4000, and from
\* bank 1 in banking mode 1.
C20_Write20KeepsUpperBits ==
    [][(Mbc1Of128Banks(gb) /\ (Stores(8192, 0) \/ Stores(8192, 32))) =>
        /\ gb'.selected_rom_bank = And16(gb.selected_rom_bank, 96) + 1
        /\ gb.selected_rom_bank = 1 => gb'.selected_rom_bank = 1
        /\ WindowBank(gb') =
             (IF gb.cart_mode_select = 1 THEN 1 ELSE gb'.selected_rom_bank)]_vars

\* C20 witness: after a store of 0x01 to 0x4000 and a store of 0x20 to 0x2000
\* reads of 0x4000 come from ROM bank 0x21
C20_WitnessBank21 ==
    /\ Initialised /\ Mbc1Of128Banks(gb)
    /\ prog[ResetEntry] = LD_A16(16384, 1)
    /\ prog[ResetEntry + 3] = LD_A16(8192, 32)
    /\ gb.cpu_reg.pc = ResetEntry + 6
    /\ gb.selected_rom_bank = 33 /\ WindowBank(gb) = 33

(***************************************************************************)
(* SpecCram: cart RAM. The host gives gb_init the header of a cartridge    *)
(* with an MBC and allocates its cart RAM array, zeroed or read from a     *)
(* save file; the guest enables cart RAM, selects RAM bank 1 and banking   *)
(* mode 1, and writes and reads 0xA000 and 0xA200.                         *)
(***************************************************************************)
\* cartridge type and RAM size code: MBC1+RAM+BATTERY with no RAM, 8 KiB and
\* 32 KiB, MBC2+BATTERY with RAM size 0 (as an MBC2 header is specified) and
\* with 8 KiB, MBC3+RAM+BATTERY and MBC5+RAM+BATTERY with 32 KiB
CramCarts == {<<3, 0>>, <<3, 2>>, <<3, 3>>, <<6, 0>>, <<6, 2>>, <<19, 3>>, <<27, 3>>}

CramHeaders ==
    {Header(0, c[1], 1, c[2], RightChecksum(0, c[1], 1, c[2])) : c \in CramCarts}

\* what every byte of the host's array holds before the guest runs: zero
\* (memset) or a byte of the save file
SaveBytes == {0, 90}

CramProgram ==
    {LD_A16(0, 10), LD_A16(16384, 1), LD_A16(24576, 1), LD_A16(40960, 53),
     LD_A_A16(40960), LD_A_A16(41472)}

InitCram ==
    /\ rom \in CramHeaders
    /\ prog = NoProg
    /\ \E b \in SaveBytes : gb = [BlankGb EXCEPT !.direct.priv.save = b]
    /\ loc = "start"
    /\ init_ret = "none"
    /\ inst_cycles = 0
    /\ elapsed = 0

NextCram ==
    \/ GbInit(0)
    \/ GbRunFrame
    \/ GbStepInterrupts
    \/ \E ins \in CramProgram : GbStepCpuOp(ins, MaxRamProg, FALSE, -1)
    \/ GbStepTiming

SpecCram == InitCram /\ [][NextCram]_vars

\* the step executes LD A,(a16)
Loads(a16) ==
    /\ loc = "fetch"
    /\ prog'[FetchKey(gb)] = LD_A_A16(a16)

\* the instruction before the one at pc stored v to a16
JustStored(a16, v) ==
    /\ gb.cpu_reg.pc >= ResetEntry + 3
    /\ prog[gb.cpu_reg.pc - 3] = LD_A16(a16, v)

\* the cartridge type has cart RAM: the type is one with RAM in the table
\* of gb_init and, but on MBC2, whose RAM is part of the MBC, the header
\* names a RAM size
HasCartRam(g, r) ==
    /\ cart_ram_tab[r[327] + 1] = 1
    /\ g.mbc = 2 \/ num_ram_banks_tab[r[329] + 1] # 0

\* what a round trip of v reads back
RoundTrip(g, v) == IF g.mbc = 2 THEN g.cpu_reg.a % 16 = v % 16 ELSE g.cpu_reg.a = v

RoundTripStep(a16, v) ==
    (Loads(a16) /\ JustStored(a16, v)) =>
        /\ RoundTrip(gb', v)
        /\ Priv(gb').cram_read = Priv(gb).cram_write
        /\ Priv(gb).cram_write # -1

\* C21, as stated: on a cartridge type with cart RAM (MBC1, MBC2, MBC3, MBC5),
\* with RAM enabled and no RTC register selected, a read of an address in
\* 0xA000-0xBFFF that follows a write of v to that address returns v (on MBC2
\* its low nibble), and gb_cart_ram_read is given the offset that
\* gb_cart_ram_write was given.
C21_CartRamRoundTrip ==
    [][(HasCartRam(gb, rom) /\ gb.enable_cart_ram # 0 /\ ~RtcSelected(gb))
        => RoundTripStep(40960, 53)]_vars

\* the round trip where gb_init has kept cart_ram set
RoundTripWhereRamKept ==
    [][(gb.cart_ram # 0 /\ gb.enable_cart_ram # 0 /\ ~RtcSelected(gb))
        => RoundTripStep(40960, 53)]_vars

\* a round trip through RAM bank 1 of an MBC1 cartridge was made
RoundTripBank1 ==
    /\ gb.mbc = 1 /\ gb.cart_mode_select = 1 /\ gb.cart_ram_bank = 1
    /\ Priv(gb).cram_read = CRAM_BANK_SIZE /\ Priv(gb).cram_write = CRAM_BANK_SIZE
    /\ gb.cpu_reg.a = 53

\* C23, as stated: on an MBC2 cartridge with RAM enabled every read of
\* 0xA000-0xBFFF returns a byte whose high nibble is 0xF, whatever the host's
\* array holds, and the window is 512 entries mirrored (address & 0x1FF).
C23_Mbc2HighNibbleF ==
    [][(gb.mbc = 2 /\ gb.enable_cart_ram # 0) =>
        /\ \A a \in {40960, 41472} : Loads(a) => gb'.cpu_reg.a \div 16 = 15
        /\ \A a \in {40960, 41472} :
              (Loads(a) /\ gb.cart_ram # 0) => Priv(gb').cram_read = a % 512]_vars

\* on MBC2 a byte the guest wrote reads back with the high nibble 0xF, at
\* 0xA000 and at its mirror 0xA200
Mbc2WrittenReadsF ==
    [][(gb.mbc = 2 /\ gb.enable_cart_ram # 0 /\ gb.cart_ram # 0
        /\ 0 \in DOMAIN Priv(gb).cart_ram) =>
        \A a \in {40960, 41472} : Loads(a) => gb'.cpu_reg.a = 245]_vars

(***************************************************************************)
(* SpecGate: cart RAM and the RTC registers while cart RAM is disabled.    *)
(* The guest enables and disables cart RAM, selects RTC register 0x08, and *)
(* writes and reads 0xA000.                                                *)
(***************************************************************************)
\* MBC1+RAM+BATTERY, MBC2+BATTERY, MBC3+TIMER+RAM+BATTERY and
\* MBC3+RAM+BATTERY, each with a RAM size in the header
GateCarts == {<<3, 3>>, <<6, 2>>, <<16, 3>>, <<19, 3>>}

GateHeaders ==
    {Header(0, c[1], 1, c[2], RightChecksum(0, c[1], 1, c[2])) : c \in GateCarts}

GateProgram ==
    {LD_A16(0, 10), LD_A16(0, 0), LD_A16(16384, 8), LD_A16(40960, 53),
     LD_A_A16(40960)}

InitGate ==
    /\ rom \in GateHeaders
    /\ prog = NoProg
    /\ gb = BlankGb
    /\ loc = "start"
    /\ init_ret = "none"
    /\ inst_cycles = 0
    /\ elapsed = 0

NextGate ==
    \/ GbInit(0)
    \/ GbRunFrame
    \/ GbStepInterrupts
    \/ \E ins \in GateProgram : GbStepCpuOp(ins, MaxGateProg, FALSE, -1)
    \/ GbStepTimingRtc

SpecGate == InitGate /\ [][NextGate]_vars

\* C22, as stated: while cart RAM is disabled, a read of 0xA000-0xBFFF returns
\* 0xFF, and a write there changes nothing: gb_cart_ram_write is not called
\* and the RTC registers are not written.
C22_DisabledRamAndRtc ==
    [][(Initialised /\ gb.enable_cart_ram = 0) =>
        /\ Loads(40960) => gb'.cpu_reg.a = 255
        /\ Stores(40960, 53) =>
              /\ Priv(gb') = Priv(gb)
              /\ gb'.rtc_real = gb.rtc_real]_vars

\* while cart RAM is disabled and no RTC register is selected, a read
\* returns 0xFF and a write calls no callback
DisabledRamAlone ==
    [][(Initialised /\ gb.enable_cart_ram = 0 /\ ~RtcSelected(gb)) =>
        /\ Loads(40960) => gb'.cpu_reg.a = 255 /\ Priv(gb') = Priv(gb)
        /\ Stores(40960, 53) => Priv(gb') = Priv(gb)]_vars

\* cart RAM was enabled, written, disabled and read
DisabledAfterWrite ==
    /\ Priv(gb).cram_writes = 1 /\ gb.enable_cart_ram = 0
    /\ gb.cpu_reg.pc = ResetEntry + 12 /\ loc = "timing"
    /\ prog[ResetEntry + 9] = LD_A_A16(40960)

(***************************************************************************)
(* SpecLatch: the RTC latch of MBC3. The host has set the RTC after        *)
(* gb_init, before the first frame; the guest writes 0 and 1 to 0x6000, selects RTC register   *)
(* 0x08, writes and reads it, switches the LCD off and halts, so that the  *)
(* halted CPU passes time in steps of INT_FAST16_MAX cycles and the RTC    *)
(* ticks.                                                                  *)
(***************************************************************************)
\* seconds of halted time after which the model stops following a frame
MaxRtcSeconds == 1

\* gb_set_rtc: tm is [sec, min, hour, yday] of struct tm
GbSetRtcOp(g, tm) ==
    [g EXCEPT !.rtc_real =
        <<tm.sec % 256, tm.min % 256, tm.hour % 256, tm.yday % 256,
          (tm.yday \div 256) % 256>>]

\* one iteration of the do-while with the RTC block, as long as the frame
\* has taken less than MaxRtcSeconds
GbStepTimingClock ==
    /\ elapsed < MaxRtcSeconds * RTC_CYCLES
    /\ GbStepTimingRtc

\* the header of an MBC3+TIMER+RAM+BATTERY cartridge with 32 KiB of RAM
Mbc3Rom == Header(0, 16, 1, 3, RightChecksum(0, 16, 1, 3))

\* 12:34:56 on day 100
LatchTimes == {[sec |-> 56, min |-> 34, hour |-> 12, yday |-> 100]}

LatchProgram ==
    {LD_A16(24576, 0), LD_A16(24576, 1), LD_A16(16384, 8), LD_A16(40960, 53),
     LD_A_A16(40960), LDH(IO_LCDC, 0), HALT}

InitLatch ==
    /\ rom = Mbc3Rom
    /\ prog = NoProg
    /\ \E tm \in LatchTimes : gb = GbSetRtcOp(GbInitOp(BlankGb, Mbc3Rom, 0).g, tm)
    /\ loc = "idle"
    /\ init_ret = GB_INIT_NO_ERROR
    /\ inst_cycles = 0
    /\ elapsed = 0

NextLatch ==
    \/ RunFirstFrame
    \/ GbStepInterrupts
    \/ \E ins \in LatchProgram : GbStepCpuOp(ins, MaxGateProg, FALSE, -1)
    \/ GbStepTimingClock

SpecLatch == InitLatch /\ [][NextLatch]_vars

\* the step is a write to 0x6000-0x7FFF with bit 0 set, and the value
\* written there before it had bit 0 clear (0 after reset)
LatchStep == Stores(24576, 1) /\ gb.cart_mode_select = 0

\* the step is a tick of the RTC
RtcTicked == gb'.rtc_real # gb.rtc_real /\ loc = "timing"

\* C24: on MBC3 a read of a selected RTC register returns the byte of
\* rtc_latched; at a write to 0x6000-0x7FFF with bit 0 set after bit 0 was
\* clear, rtc_latched becomes a copy of rtc_real; no other step changes
\* rtc_latched: not an RTC tick, not a guest write to an RTC register, not a
\* repeated write of 1.
C24_LatchOnRisingEdge ==
    [][/\ (Loads(40960) /\ RtcSelected(gb) /\ gb.cart_ram_bank <= 12)
            => gb'.cpu_reg.a = gb.rtc_latched[gb.cart_ram_bank - 7]
       /\ LatchStep => gb'.rtc_latched = gb.rtc_real
       /\ ~LatchStep => gb'.rtc_latched = gb.rtc_latched]_vars

\* C24 witness: after a latch, a guest write to the seconds register and a
\* second write of 1 to 0x6000, rtc_latched still holds the time latched
\* first
C24_WitnessSecondWriteOfOne ==
    /\ prog[ResetEntry] = LD_A16(24576, 1)
    /\ prog[ResetEntry + 3] = LD_A16(16384, 8)
    /\ prog[ResetEntry + 6] = LD_A16(40960, 53)
    /\ prog[ResetEntry + 9] = LD_A16(24576, 1)
    /\ gb.cpu_reg.pc = ResetEntry + 12
    /\ gb.rtc_latched = <<56, 34, 12, 100, 0>>
    /\ gb.rtc_real = <<53, 34, 12, 100, 0>>

\* the RTC ticked after a latch: rtc_latched holds the time latched
LatchedBeforeTick ==
    /\ gb.rtc_latched = <<56, 34, 12, 100, 0>>
    /\ gb.rtc_real = <<57, 34, 12, 100, 0>>

\* a latch after a write of 0 copied the seconds the guest had written
LatchedAfterZero ==
    /\ prog[ResetEntry] = LD_A16(24576, 0)
    /\ prog[ResetEntry + 9] = LD_A16(24576, 1)
    /\ gb.rtc_latched = <<53, 34, 12, 100, 0>>

\* the latched seconds were read
LatchedRead ==
    /\ prog[ResetEntry + 6] = LD_A_A16(40960)
    /\ gb.cpu_reg.pc = ResetEntry + 9
    /\ gb.cpu_reg.a = 56

(***************************************************************************)
(* SpecRtc: the RTC tick of MBC3. The host has set the RTC; the guest      *)
(* selects the seconds, minutes or hours register, writes 62 or 63 to it   *)
(* (the hours register keeps five bits: 30 or 31), switches the LCD off    *)
(* and halts until a second has passed.                                    *)
(***************************************************************************)
\* 23:59:59 on day 255, and 12:34:56 on day 100
RtcTimes ==
    {[sec |-> 59, min |-> 59, hour |-> 23, yday |-> 255],
     [sec |-> 56, min |-> 34, hour |-> 12, yday |-> 100]}

RtcProgram ==
    {LD_A16(16384, r) : r \in {8, 9, 10}}
    \cup {LD_A16(40960, v) : v \in {62, 63}}
    \cup {LDH(IO_LCDC, 0), HALT}

InitRtc ==
    /\ rom = Mbc3Rom
    /\ prog = NoProg
    /\ \E tm \in RtcTimes : gb = GbSetRtcOp(GbInitOp(BlankGb, Mbc3Rom, 0).g, tm)
    /\ loc = "idle"
    /\ init_ret = GB_INIT_NO_ERROR
    /\ inst_cycles = 0
    /\ elapsed = 0

NextRtc ==
    \/ RunFirstFrame
    \/ GbStepInterrupts
    \/ \E ins \in RtcProgram : GbStepCpuOp(ins, MaxRtcProg, FALSE, -1)
    \/ GbStepTimingClock

SpecRtc == InitRtc /\ [][NextRtc]_vars

\* the step is one tick of the RTC: a second was taken off rtc_count
SecondPassed ==
    /\ loc = "timing"
    /\ gb'.counter.rtc_count < gb.counter.rtc_count

\* a wall-clock field that counts modulo m: its next value and the carry
LegalNext(v, m) == IF v + 1 = m THEN [v |-> 0, carry |-> TRUE]
                   ELSE [v |-> v + 1, carry |-> FALSE]

\* a field counting modulo m that stays at the value top of its register
FrozenNext(v, m, top) ==
    IF v = top THEN [v |-> top, carry |-> FALSE] ELSE LegalNext(v, m)

\* a field counting modulo m that goes from the value top of its register
\* to 0 without a carry
WrappedNext(v, m, top) ==
    IF v = top THEN [v |-> 0, carry |-> FALSE] ELSE LegalNext(v, m)

\* seconds, minutes and hours at a tick carry into each other: each field
\* ticks if the field below it carried
FrozenTick(old, new) ==
    LET s == FrozenNext(old[1], 60, 63)
        m == IF s.carry THEN FrozenNext(old[2], 60, 63)
             ELSE [v |-> old[2], carry |-> FALSE]
        h == IF m.carry THEN FrozenNext(old[3], 24, 31)
             ELSE [v |-> old[3], carry |-> FALSE]
    IN  new[1] = s.v /\ new[2] = m.v /\ new[3] = h.v

WrappedTick(old, new) ==
    LET s == WrappedNext(old[1], 60, 63)
        m == IF s.carry THEN WrappedNext(old[2], 60, 63)
             ELSE [v |-> old[2], carry |-> FALSE]
        h == IF m.carry THEN WrappedNext(old[3], 24, 31)
             ELSE [v |-> old[3], carry |-> FALSE]
        days == old[4] + 256 * (old[5] % 2)
    IN  /\ new[1] = s.v /\ new[2] = m.v /\ new[3] = h.v
        /\ new[4] + 256 * (new[5] % 2) = IF h.carry THEN (days + 1) % 512 ELSE days

\* C25, as stated: at an RTC tick, seconds at 63, minutes at 63 and hours at
\* 31 stay at that value; other values count modulo 60, 60 and 24 with a
\* carry into the next field.
C25_IllegalValuesFrozen ==
    [][SecondPassed => FrozenTick(gb.rtc_real, gb'.rtc_real)]_vars

\* C25, amended: at an RTC tick, seconds at 63, minutes at 63 and hours at 31
\* become 0 without a carry into the next field; seconds and minutes at
\* 60-62 and hours at 24-30 count up by one; other values count modulo 60,
\* 60 and 24 with a carry into the next field, hours into the 9-bit day
\* counter.
C25_IllegalValuesWrapNoCarry ==
    [][SecondPassed => WrappedTick(gb.rtc_real, gb'.rtc_real)]_vars

\* C25 witness: the guest set seconds to 63 at 23:59; a second later the
\* seconds are 0 and the minutes still 59
C25_WitnessSeconds63To0 ==
    /\ prog[ResetEntry] = LD_A16(16384, 8)
    /\ prog[ResetEntry + 3] = LD_A16(40960, 63)
    /\ elapsed >= RTC_CYCLES
    /\ gb.rtc_real = <<0, 59, 23, 255, 0>>

\* 23:59:59 on day 255 became 00:00:00 on day 256
MidnightCarried ==
    /\ elapsed >= RTC_CYCLES
    /\ gb.rtc_real = <<0, 0, 0, 0, 1>>

\* hours at 31 became 0 and the day stayed
Hours31To0 ==
    /\ elapsed >= RTC_CYCLES
    /\ prog[ResetEntry + 3] = LD_A16(40960, 63)
    /\ gb.rtc_real = <<0, 0, 0, 255, 0>>

\* seconds at 62 became 63
Seconds62To63 ==
    /\ elapsed >= RTC_CYCLES
    /\ gb.rtc_real = <<63, 59, 23, 255, 0>>


(***************************************************************************)
(* SpecError: the run-time errors. The guest is any bytes: the opcode at   *)
(* pc may be any of the 256, and LD A,(a16) reads from the ends of every   *)
(* range __gb_read tells apart. The switch of __gb_step_cpu has a case for *)
(* every opcode in OpcodeCases, its default case calls gb_error, and the   *)
(* host's gb_error does not return. The opcodes with a case that Execute   *)
(* does not translate, and the CB-prefixed ones of __gb_execute_cb, call   *)
(* gb_error nowhere: they end at "beyond", where the model stops.          *)
(***************************************************************************)
\* the case labels of the switch(opcode) of __gb_step_cpu
OpcodeCases ==
    (0 .. 210) \cup (212 .. 218) \cup {220} \cup (222 .. 226)
    \cup (229 .. 234) \cup (238 .. 243) \cup (245 .. 251) \cup {254, 255}

\* the opcodes Execute translates
ExecuteCases == {0, 24, 39, 49, 118, 128, 224, 234, 243, 250, 251}

\* the address the default case would report if it did not step back over
\* the opcode byte
DefaultCaseAddrAfter(g) == g.cpu_reg.pc

\* the address the default case reports, pc being past the opcode byte
DefaultCaseAddr(g) == (g.cpu_reg.pc - 1) % 65536

\* __gb_step_cpu, "Obtain opcode" and the default case of the switch
GbStepDefault(op) ==
    /\ loc = "fetch"
    /\ op \notin OpcodeCases
    /\ LET at == FetchKey(gb)
           g == [gb EXCEPT !.cpu_reg.pc = PcAfter(gb, 0)]
       IN  /\ at \in ProgAddrs
           /\ prog[at] \in {NoIns, Ins(op, 0, 0)}
           /\ prog' = [prog EXCEPT ![at] = Ins(op, 0, 0)]
           /\ gb' = GbError(g, GB_INVALID_OPCODE, DefaultCaseAddr(g))
    /\ inst_cycles' = 0          \* op_cycles[opcode] of these opcodes
    /\ loc' = "exited"
    /\ UNCHANGED <<rom, init_ret, elapsed>>

\* __gb_step_cpu, "Obtain opcode" and a case of the switch that is not
\* translated: no gb_error in any of them
GbStepBeyond(op) ==
    /\ loc = "fetch"
    /\ op \in OpcodeCases \ ExecuteCases
    /\ LET at == FetchKey(gb)
       IN  /\ at \in ProgAddrs
           /\ prog[at] \in {NoIns, Ins(op, 0, 0)}
           /\ prog' = [prog EXCEPT ![at] = Ins(op, 0, 0)]
    /\ gb' = [gb EXCEPT !.cpu_reg.pc = PcAfter(gb, 0)]
    /\ loc' = "beyond"
    /\ UNCHANGED <<rom, init_ret, inst_cycles, elapsed>>

\* LD A,(a16) that returned through GB_INVALID_READ does not come back
GbStepRead(ins, n) ==
    /\ ins.code = 250
    /\ GbStepCpu(ins, n)
    /\ Priv(gb').error = NoError

\* both ends of every address range __gb_read tells apart
ReadEnds ==
    {0, 255, 256, 16383, 16384, 32767, 32768, 40959, 40960, 49151, 49152,
     57343, 57344, 61439, 61440, 65023, 65024, 65183, 65184, 65279, 65280,
     65295, 65296, 65343, 65344, 65407, 65408, 65535}

ErrorCarts == {<<0, 0>>, <<3, 3>>, <<16, 3>>}

ErrorHeaders ==
    {Header(0, c[1], 1, c[2], RightChecksum(0, c[1], 1, c[2])) : c \in ErrorCarts}

ErrorProgram == {NOP, LDH(IO_BOOT, 1)}

InitError ==
    /\ rom \in ErrorHeaders
    /\ gb = GbInitOp(BlankGb, rom, 0).g
    /\ prog = NoProg
    /\ loc = "idle"
    /\ init_ret = GB_INIT_NO_ERROR
    /\ inst_cycles = 0
    /\ elapsed = 0

NextError ==
    \/ GbRunFrame
    \/ GbStepInterrupts
    \/ \E ins \in ErrorProgram : GbStepCpu(ins, MaxOpcodeProg)
    \/ \E a \in ReadEnds : GbStepRead(LD_A_A16(a), MaxOpcodeProg)
    \/ \E op \in Byte : GbStepDefault(op)
    \/ \E op \in Byte : GbStepBeyond(op)
    \/ GbStepTiming

SpecError == InitError /\ [][NextError]_vars

\* the eleven opcodes without defined behaviour
UndefinedOpcodes == {211, 219, 221, 227, 228, 235, 236, 237, 244, 252, 253}

\* whether this step calls gb_error
ErrorCalled == Priv(gb').error # Priv(gb).error

\* whether this step fetches one of the undefined opcodes at pc
FetchesUndefined ==
    /\ loc = "fetch"
    /\ loc' # "fetch"
    /\ FetchKey(gb) \in ProgAddrs
    /\ prog'[FetchKey(gb)].code \in UndefinedOpcodes

\* the addresses at which __gb_read ends in GB_INVALID_READ
InvalidReads == {addr \in 0 .. 65535 : ReadCase(addr) = GB_INVALID_READ}

\* C26: gb_error is called exactly in the step that fetches one of 0xD3,
\* 0xDB, 0xDD, 0xE3, 0xE4, 0xEB, 0xEC, 0xED, 0xF4, 0xFC, 0xFD, with
\* GB_INVALID_OPCODE and the address of the opcode byte; no other opcode,
\* CB included, calls it, and an __gb_read of no 16-bit address would end in
\* GB_INVALID_READ
C26_OnlyInvalidOpcode ==
    [][/\ ErrorCalled <=> FetchesUndefined
       /\ ErrorCalled =>
             Priv(gb').error = [code |-> GB_INVALID_OPCODE,
                                addr |-> gb.cpu_reg.pc]
       /\ InvalidReads = {}]_vars

\* C26 witness: the second byte of the guest is 0xD3, and gb_error was
\* called with its address 0x0101
C26_WitnessErrorAt0101 ==
    /\ loc = "exited"
    /\ prog[257] = Ins(211, 0, 0)
    /\ Priv(gb).error = [code |-> GB_INVALID_OPCODE, addr |-> 257]

\* a CB-prefixed opcode was fetched and no error reported
CbFetched ==
    loc = "beyond" /\ prog[256].code = 203 /\ Priv(gb).error = NoError

\* a read from 0xFFFF came back
ReadFfffDone ==
    /\ loc = "timing"
    /\ prog[256] = LD_A_A16(65535)
    /\ Priv(gb).error = NoError


(***************************************************************************)
(* SpecLcdOff: the LCD switched off. In the first frame after reset the    *)
(* guest executes NOPs, writes STAT, switches the LCD off once, and then   *)
(* loops. The observer elapsed holds the cycles handed to the timing loop  *)
(* since the store that switched the LCD off.                              *)
(***************************************************************************)
OffProgram ==
    {NOP, JR(-2), LDH(IO_LCDC, 17), LDH(IO_STAT, 127)}

\* the guest stores to LCDC while the LCD is on, and loops once it is off
OffGuest(ins) ==
    /\ ins.code = 224 /\ ins.imm = IO_LCDC => LcdOn(gb)
    /\ ins.code = 24 => ~LcdOn(gb)

NextLcdOff ==
    \/ RunFirstFrame
    \/ GbStepInterrupts
    \/ \E ins \in OffProgram :
          OffGuest(ins) /\ GbStepCpuOp(ins, MaxOffProg, FALSE, IO_LCDC)
    \/ GbStepTimingCounted

SpecLcdOff == Init /\ [][NextLcdOff]_vars

\* the step is the store that switches the LCD off
SwitchOffStep == loc = "fetch" /\ LcdOn(gb) /\ ~LcdOn(gb')

\* the LCD is off before and after the step
OffStep == ~LcdOn(gb) /\ ~LcdOn(gb')

\* the store that switches the LCD off leaves LY 0, mode 0 and the line
\* cycle counter 0
SwitchOffResets ==
    SwitchOffStep =>
        Line(gb') = 0 /\ Mode(gb') = 0 /\ gb'.counter.lcd_count = 0

\* with the LCD off no step changes LY, the mode or the line cycle counter,
\* or requests a VBlank or LCDC interrupt
OffStepKeeps ==
    OffStep =>
        /\ Line(gb') = Line(gb)
        /\ Mode(gb') = Mode(gb)
        /\ gb'.counter.lcd_count = gb.counter.lcd_count
        /\ VBlankRequested(gb') => VBlankRequested(gb)
        /\ BitSet(gb'.hram_io[IO_IF], LCDC_INTR)
              => BitSet(gb.hram_io[IO_IF], LCDC_INTR)

\* the step sets gb_frame with the LCD off
OffFrameRaised == OffStep /\ ~gb.gb_frame /\ gb'.gb_frame

OffStatWritten ==
    ~LcdOn(gb) /\ loc = "timing" /\ gb.hram_io[IO_STAT] = 248 /\ elapsed > 0


(***************************************************************************)
(* SpecPpu: the LCDC interrupt. The guest sets LYC, sets one interrupt     *)
(* enable bit of STAT, switches the LCD off, and halts through the lines   *)
(* up to the next VBlank; IE stays 0, so the step after a HALT goes on     *)
(* with the next instruction.                                              *)
(***************************************************************************)
PpuProgram ==
    {HALT, LDH(IO_LCDC, 17), LDH(IO_LYC, 1)}
    \cup {LDH(IO_STAT, v) : v \in {STAT_MODE_0_INTR, STAT_MODE_1_INTR,
                                   STAT_MODE_2_INTR, STAT_LYC_INTR}}

\* the guest halts while the LCD is on
PpuGuest(ins) == ins.code = 118 => LcdOn(gb)

NextPpu ==
    \/ GbRunFrame
    \/ GbStepInterrupts
    \/ \E ins \in PpuProgram : PpuGuest(ins) /\ GbStepCpu(ins, MaxPpuProg)
    \/ GbStepTiming

SpecPpu == Init /\ [][NextPpu]_vars


LcdcRequested(g) == BitSet(g.hram_io[IO_IF], LCDC_INTR)

\* bits 3-6 of STAT
StatEnables(g) == And8(g.hram_io[IO_STAT], 120)

\* the step takes the STAT mode to m
Enters(m) == Mode(gb') = m /\ Mode(gb) # m

LyChanges == Line(gb') # Line(gb)

LyIsLyc(g) == g.hram_io[IO_LY] = g.hram_io[IO_LYC]

\* the step does one of the four things that request an LCDC interrupt
LcdcCause ==
    \/ Enters(IO_STAT_MODE_HBLANK) /\ BitSet(gb'.hram_io[IO_STAT], STAT_MODE_0_INTR)
    \/ Enters(IO_STAT_MODE_VBLANK) /\ BitSet(gb'.hram_io[IO_STAT], STAT_MODE_1_INTR)
    \/ Enters(IO_STAT_MODE_OAM_SCAN) /\ BitSet(gb'.hram_io[IO_STAT], STAT_MODE_2_INTR)
    \/ LyChanges /\ LyIsLyc(gb') /\ BitSet(gb'.hram_io[IO_STAT], STAT_LYC_INTR)

\* what C28 says of a step
LcdcRule ==
    /\ LcdcCause => LcdcRequested(gb')
    /\ LcdcRequested(gb') /\ ~LcdcRequested(gb) => LcdcCause
    /\ LyChanges => (BitSet(gb'.hram_io[IO_STAT], STAT_LYC_COINC) <=> LyIsLyc(gb'))
    /\ Enters(IO_STAT_MODE_LCD_DRAW) => (LcdcRequested(gb') <=> LcdcRequested(gb))

\* C28 as stated: IF bit 1 is set exactly by a step that enters mode 0, 1 or
\* 2 with STAT bit 3, 4 or 5 set or that changes LY to LYC with STAT bit 6
\* set; every step that changes LY leaves STAT bit 2 equal to (LY = LYC);
\* entering mode 3 requests nothing
C28_LcdcRequestedOnEntry == [][LcdcRule]_vars

\* C28: the same of every iteration of the timing loop; the store that
\* switches the LCD off, though it takes the mode to 0 and LY to 0, leaves
\* IF bit 1 and STAT bit 2 as they are
C28_LcdcRequestedByTiming ==
    [][/\ loc = "timing" => LcdcRule
       /\ SwitchOffStep =>
             /\ LcdcRequested(gb') <=> LcdcRequested(gb)
             /\ BitSet(gb'.hram_io[IO_STAT], STAT_LYC_COINC)
                   <=> BitSet(gb.hram_io[IO_STAT], STAT_LYC_COINC)]_vars

\* C28 witness: with only STAT bit 6 set and LYC = 1, the LCDC interrupt is
\* requested when LY becomes 1
C28_WitnessLycAtLine1 ==
    /\ Line(gb) = 1
    /\ gb.hram_io[IO_LYC] = 1
    /\ StatEnables(gb) = STAT_LYC_INTR
    /\ BitSet(gb.hram_io[IO_STAT], STAT_LYC_COINC)
    /\ LcdcRequested(gb)

\* requested on entry to mode 0, to mode 1 and to mode 2, each with its bit
\* alone
RequestedInMode0 ==
    /\ StatEnables(gb) = STAT_MODE_0_INTR
    /\ Mode(gb) = 0 /\ Line(gb) = 1 /\ LcdcRequested(gb)

RequestedInMode1 ==
    /\ StatEnables(gb) = STAT_MODE_1_INTR
    /\ Mode(gb) = 1 /\ Line(gb) = 144 /\ LcdcRequested(gb)

RequestedInMode2 ==
    /\ StatEnables(gb) = STAT_MODE_2_INTR
    /\ Mode(gb) = 2 /\ Line(gb) = 1 /\ LcdcRequested(gb)

\* mode 3 entered and nothing requested, with the mode 0 bit set
NotRequestedInMode3 ==
    /\ StatEnables(gb) = STAT_MODE_0_INTR
    /\ Mode(gb) = 3 /\ ~LcdcRequested(gb)

\* the LCD switched off in VBlank with the mode 0 bit set: mode 0, LY = LYC
\* = 0, the coincidence flag clear and nothing requested
SwitchedOffUnflagged ==
    /\ ~LcdOn(gb) /\ Mode(gb) = 0 /\ LyIsLyc(gb)
    /\ BitSet(gb.hram_io[IO_STAT], STAT_MODE_0_INTR)
    /\ ~BitSet(gb.hram_io[IO_STAT], STAT_LYC_COINC)
    /\ ~LcdcRequested(gb)

\* the second HALT took LY from 153 to 0
LineWrapped == Line(gb) = 0 /\ LcdOn(gb) /\ Mode(gb) = 2 /\ prog[257] = HALT


(***************************************************************************)
(* SpecStat: stores to STAT and to LY. The guest stores to STAT and to LY, *)
(* switches the LCD off and on, and halts through the lines up to the next *)
(* VBlank; IE stays 0.                                                     *)
(***************************************************************************)
StatValues == {0, 127, 255}

StatProgram ==
    {HALT, LDH(IO_LY, 99), LDH(IO_LCDC, 17), LDH(IO_LCDC, 145)}
    \cup {LDH(IO_STAT, v) : v \in StatValues}

NextStat ==
    \/ GbRunFrame
    \/ GbStepInterrupts
    \/ \E ins \in StatProgram : PpuGuest(ins) /\ GbStepCpu(ins, MaxPpuProg)
    \/ GbStepTiming

SpecStat == Init /\ [][NextStat]_vars

\* the step is the store of a to the I/O register a8
StoresIO(a8, a) ==
    /\ loc = "fetch"
    /\ prog'[FetchKey(gb)] = LDH(a8, a)

\* C29 as stated: a store of v to STAT leaves bits 0-2 as they were, gives
\* bits 3-6 those of v and leaves bit 7 set; bit 7 of STAT is set in every
\* state
C29_StatStoreKeepsBits0To2 ==
    [][/\ \A v \in StatValues :
             StoresIO(IO_STAT, v) =>
                /\ gb'.hram_io[IO_STAT] % 8 = gb.hram_io[IO_STAT] % 8
                /\ StatEnables(gb') = And8(v, 120)
       /\ BitSet(gb.hram_io[IO_STAT], 128)
       /\ BitSet(gb'.hram_io[IO_STAT], 128)]_vars

\* what does hold of STAT: a store of v leaves the mode bits as they were,
\* clears bit 2, gives bits 3-6 those of v and leaves bit 7 set; bit 7 is set
\* in every state
StatStoreClearsFlag ==
    [][/\ \A v \in StatValues :
             StoresIO(IO_STAT, v) =>
                /\ Mode(gb') = Mode(gb)
                /\ ~BitSet(gb'.hram_io[IO_STAT], STAT_LYC_COINC)
                /\ StatEnables(gb') = And8(v, 120)
       /\ BitSet(gb.hram_io[IO_STAT], 128)
       /\ BitSet(gb'.hram_io[IO_STAT], 128)]_vars

\* STAT was 0x85 after reset, LY = LYC = 0, and the first instruction of the
\* guest stored 0 to it: STAT is 0x81
FlagLostAtLyc ==
    /\ prog[256] = LDH(IO_STAT, 0)
    /\ loc = "timing"
    /\ gb.cpu_reg.pc = 258
    /\ LyIsLyc(gb)
    /\ gb.hram_io[IO_STAT] = 129

\* C30: LY is in 0..153; it changes only by the timing loop, to the next
\* line and from 153 to 0, and by the store that switches the LCD off, to 0;
\* with the LCD off LY is 0; a store to 0xFF44 leaves LY as it is
C30_LyInRange ==
    [][/\ Line(gb) \in 0 .. 153
       /\ Line(gb') \in 0 .. 153
       /\ ~LcdOn(gb') => Line(gb') = 0
       /\ LyChanges =>
             \/ loc = "timing" /\ Line(gb) < 153 /\ Line(gb') = Line(gb) + 1
             \/ loc = "timing" /\ Line(gb) = 153 /\ Line(gb') = 0
             \/ SwitchOffStep /\ Line(gb') = 0
       /\ StoresIO(IO_LY, 99) => Line(gb') = Line(gb)]_vars

\* C30 witness: the guest halted up to line 144 and then stored 99 to LY,
\* which is still 144
C30_WitnessLyStoredAt144 ==
    /\ prog[256] = HALT
    /\ prog[257] = LDH(IO_LY, 99)
    /\ loc = "timing"
    /\ gb.cpu_reg.pc = 259
    /\ Line(gb) = 144

\* a second HALT took LY through 153 to 0 and on
LyWrappedTo0 ==
    /\ prog[256] = HALT /\ prog[257] = HALT
    /\ LcdOn(gb) /\ Line(gb) = 0 /\ Mode(gb) = 2

LyAt153 == LcdOn(gb) /\ Line(gb) = 153

\* the LCD switched off at line 144: LY is 0
LyZeroedAtSwitchOff ==
    /\ prog[256] = HALT
    /\ prog[257] = LDH(IO_LCDC, 17)
    /\ loc = "timing"
    /\ ~LcdOn(gb) /\ Line(gb) = 0


(***************************************************************************)
(* SpecIf: the interrupt flags. The guest stores to IF, directly and by the *)
(* push of an interrupt service with SP at 0xFF11, reads IF, enables       *)
(* interrupts and the timer, and halts; the PPU, the timer and the         *)
(* interrupt service set and clear the flags.                              *)
(***************************************************************************)
IfProgram ==
    {EI, HALT, LD_SP(65297), LD_A_A16(IO_ADDR + IO_IF), LDH(IO_IE, 31),
     LDH(IO_TAC, 5)}
    \cup {LDH(IO_IF, v) : v \in {0, 31}}

NextIf ==
    \/ RunFirstFrame
    \/ GbStepInterrupts
    \/ \E ins \in IfProgram : GbStepCpu(ins, MaxIfProg)
    \/ GbStepTiming

SpecIf == Init /\ [][NextIf]_vars

\* bits 5-7 of a byte are set
TopBitsSet(v) == v \div 32 = 7

\* C31: IF has bits 5-7 set before and after every step: after reset, after
\* a guest store to 0xFF0F, after an interrupt request and after an
\* interrupt service; and a load from 0xFF0F gives A a value with bits 5-7
\* set
C31_IfTopBitsSet ==
    [][/\ TopBitsSet(gb.hram_io[IO_IF])
       /\ TopBitsSet(gb'.hram_io[IO_IF])
       /\ Loads(IO_ADDR + IO_IF) =>
             gb'.cpu_reg.a = gb.hram_io[IO_IF] /\ TopBitsSet(gb'.cpu_reg.a)]_vars

\* C31 witness: the guest stored 0 to IF and loaded it: A is 0xE0
C31_WitnessStored0ReadE0 ==
    /\ prog[256] = LDH(IO_IF, 0)
    /\ prog[258] = LD_A_A16(IO_ADDR + IO_IF)
    /\ loc = "timing"
    /\ gb.cpu_reg.pc = 261
    /\ gb.cpu_reg.a = 224

\* the timer interrupt was serviced: IF bit 2 cleared, pc in its handler
TimerServiced ==
    /\ gb.cpu_reg.pc = TIMER_INTR_ADDR
    /\ loc = "fetch"
    /\ gb.hram_io[IO_IF] % 8 < 4

\* the VBlank interrupt was requested
VBlankFlagged == gb.hram_io[IO_IF] % 2 = 1 /\ Line(gb) = 144

\* an interrupt service with SP = 0xFF11 pushed the pc over IF
PushedOverIf ==
    /\ gb.cpu_reg.sp = IO_ADDR + IO_IF
    /\ loc = "fetch"
    /\ gb.cpu_reg.pc \in Vectors

(***************************************************************************)
(* __gb_draw_line, "draw sprites", as built with the defaults              *)
(* PEANUT_GB_HIGH_LCD_ACCURACY = 1 and PEANUT_GB_12_COLOUR = 1. pixels is  *)
(* the function's local array of LCD_WIDTH bytes, all 0 where neither the  *)
(* background nor the window is drawn. display.bg_palette and              *)
(* display.sp_palette are assigned by the writes of BGP, OBP0 and OBP1     *)
(* only, each entry two bits of the register, and are read from the        *)
(* registers here.                                                         *)
(***************************************************************************)
NUM_SPRITES == 40
MAX_SPRITES_LINE == 10
OBJ_PRIORITY == 128
OBJ_FLIP_Y == 64
OBJ_FLIP_X == 32
OBJ_PALETTE == 16
LCDC_OBJ_SIZE == 4
LCDC_OBJ_ENABLE == 2
LCDC_BG_ENABLE == 1
LCD_WIDTH == 160
OAM_SIZE == 160
VRAM_TILES_1 == 0

\* display.bg_palette[i] and display.sp_palette[i]
bg_palette(g, i) == (g.hram_io[IO_BGP] \div (4 ^ i)) % 4
sp_palette(g, i) ==
    IF i < 4 THEN (g.hram_io[IO_OBP0] \div (4 ^ i)) % 4
             ELSE (g.hram_io[IO_OBP1] \div (4 ^ (i - 4))) % 4

\* a comparison by x alone
compare_sprites_x(sd1, sd2) == sd1.x - sd2.x

\* compare_sprites
compare_sprites(sd1, sd2) ==
    LET x_res == sd1.x - sd2.x
    IN  IF x_res # 0 THEN x_res ELSE sd1.sprite_number - sd2.sprite_number

\* "If sprite isn't on this line, continue", negated
OnLine(g, OY) ==
    ~ \/ Line(g) + (IF BitSet(g.hram_io[IO_LCDC], LCDC_OBJ_SIZE) THEN 0 ELSE 8) >= OY
      \/ Line(g) + 16 < OY

\* the for loop over place; sprites_to_render[place - 1] is str[place]
RECURSIVE Place(_, _, _)
Place(str, place, current) ==
    IF place = 0 THEN 0
    ELSE IF compare_sprites(str[place], current) < 0 THEN place
    ELSE Place(str, place - 1, current)

\* the insertion of current: sprites_to_render as the sequence of its first
\* number_of_sprites entries; the memmove shifts the entries from place on
\* and drops the last one of a full array
InsertSprite(str, current) ==
    LET place == Place(str, Len(str), current)
        kept == IF Len(str) < MAX_SPRITES_LINE THEN Len(str) ELSE MAX_SPRITES_LINE - 1
    IN  IF place >= MAX_SPRITES_LINE THEN str
        ELSE SubSeq(str, 1, place) \o <<current>> \o SubSeq(str, place + 1, kept)

\* the for loop over sprite_number that fills sprites_to_render
RECURSIVE SelectSprites(_, _, _)
SelectSprites(g, sprite_number, str) ==
    IF sprite_number = NUM_SPRITES THEN str
    ELSE LET OY == g.oam[4 * sprite_number]
             OX == g.oam[4 * sprite_number + 1]
             current == [sprite_number |-> sprite_number, x |-> OX]
         IN  SelectSprites(g, sprite_number + 1,
                           IF OnLine(g, OY) THEN InsertSprite(str, current) ELSE str)

SpritesToRender(g) == SelectSprites(g, 0, <<>>)

\* "check transparency / sprite overlap / background overlap"
SpritePixelDrawn(g, c, OF, below) ==
    c # 0 /\ ~(BitSet(OF, OBJ_PRIORITY) /\ ~(below % 4 = bg_palette(g, 0)))

\* the for loop over disp_x, "copy tile"
RECURSIVE CopyTile(_, _, _, _, _, _, _, _)
CopyTile(g, pixels, OF, t1, t2, disp_x, end, dir) ==
    IF disp_x = end THEN pixels
    ELSE LET c == (t1 % 2) + 2 * (t2 % 2)
             colour == IF BitSet(OF, OBJ_PALETTE) THEN sp_palette(g, c + 4)
                                                  ELSE sp_palette(g, c)
             drawn == IF SpritePixelDrawn(g, c, OF, pixels[disp_x])
                      THEN [pixels EXCEPT ![disp_x] = Or8(colour, And8(OF, OBJ_PALETTE))]
                      ELSE pixels
         IN  CopyTile(g, drawn, OF, t1 \div 2, t2 \div 2,
                      (disp_x + dir) % 256, end, dir)

\* the body of the rendering loop for sprite s
DrawSprite(g, pixels, s) ==
    LET tall == BitSet(g.hram_io[IO_LCDC], LCDC_OBJ_SIZE)
        OY == g.oam[4 * s]
        OX == g.oam[4 * s + 1]
        OT == And8(g.oam[4 * s + 2], IF tall THEN 254 ELSE 255)
        OF == g.oam[4 * s + 3]
        py0 == (Line(g) - OY + 16) % 256
        py == IF BitSet(OF, OBJ_FLIP_Y)
              THEN ((IF tall THEN 15 ELSE 7) - py0) % 256 ELSE py0
        t1 == g.vram[VRAM_TILES_1 + OT * 16 + 2 * py]
        t2 == g.vram[VRAM_TILES_1 + OT * 16 + 2 * py + 1]
        flip == BitSet(OF, OBJ_FLIP_X)
        lo == IF OX < 8 THEN 0 ELSE OX - 8
        hi == IF OX < LCD_WIDTH THEN OX ELSE LCD_WIDTH
        dir == IF flip THEN 1 ELSE 255
        start == IF flip THEN lo ELSE hi - 1
        end == IF flip THEN hi ELSE (lo - 1) % 256
        shift == IF flip THEN (8 - OX + start) % 256 ELSE (OX - (start + 1)) % 256
    IN  IF OX = 0 \/ OX >= 168 THEN pixels
        ELSE CopyTile(g, pixels, OF, t1 \div (2 ^ shift), t2 \div (2 ^ shift),
                      start, end, dir)

\* "Render the top ten prioritised sprites on this scanline": sprite_number
\* runs from number_of_sprites - 1 down to 0; str[k] is entry k - 1
RECURSIVE RenderSprites(_, _, _, _)
RenderSprites(g, pixels, str, k) ==
    IF k = 0 THEN pixels
    ELSE RenderSprites(g, DrawSprite(g, pixels, str[k].sprite_number), str, k - 1)

\* "draw sprites"
DrawSprites(g, pixels) ==
    IF BitSet(g.hram_io[IO_LCDC], LCDC_OBJ_ENABLE)
    THEN LET str == SpritesToRender(g)
         IN  RenderSprites(g, pixels, str, Len(str))
    ELSE pixels

\* uint8_t pixels[160] = {0}
BlankPixels == [x \in 0 .. LCD_WIDTH - 1 |-> 0]

\* __gb_draw_line for a line without background and window that neither
\* frame skip nor interlacing leaves out: the sprites are drawn over the
\* blank line and the host's lcd_draw_line gets the pixels and LY
GbDrawLine ==
    /\ loc = "draw"
    /\ ~BitSet(gb.hram_io[IO_LCDC], LCDC_BG_ENABLE)
    /\ ~BitSet(gb.hram_io[IO_LCDC], LCDC_WINDOW_ENABLE)
    /\ gb.display.lcd_draw_line
    /\ ~gb.direct.frame_skip /\ ~gb.direct.interlace
    /\ gb' = [GbDrawLineOp(gb) EXCEPT
                  !.direct.priv.pixels = DrawSprites(gb, BlankPixels)]
    /\ loc' = "drawn"
    /\ UNCHANGED <<rom, prog, init_ret, inst_cycles, elapsed>>

(***************************************************************************)
(* SpecSprite: __gb_draw_line is called for line 10 with the sprites the   *)
(* guest has put into OAM. The guest has set LCDC to sprites on, 8 or 16   *)
(* lines tall, background and window off, and OBP0 and OBP1 to 0xE4 (each  *)
(* colour its own shade). VRAM holds tiles 0-3: tile 0 is transparent,     *)
(* tile 1 has colour 1 in every pixel, tile 2 colour 2 in its right half,  *)
(* tile 3 colour 1 in its left half and colour 3 in its right half.        *)
(***************************************************************************)
MaxLineSprites == 11
SpriteLine == 10
SpriteXs == {0, 5, 8, 12, 168}
SpriteYs == {11, 19, 26, 27}
SpriteFlags == {0, OBJ_PALETTE, OBJ_PRIORITY, OBJ_FLIP_X + OBJ_FLIP_Y}
TieXs == {8, 12}

\* OAM holding the sprites of sprs, <<Y, X, tile, flags>> each, from entry 0
\* on, and zero bytes after them
Oam(sprs) ==
    [i \in 0 .. OAM_SIZE - 1 |->
        IF i \div 4 < Len(sprs) THEN sprs[(i \div 4) + 1][(i % 4) + 1] ELSE 0]

SpriteVram ==
    [a \in 0 .. 63 |->
        LET t == a \div 16
        IN  IF a % 2 = 0 THEN (IF t % 2 = 1 THEN 255 ELSE 0)
                         ELSE (IF t >= 2 THEN 15 ELSE 0)]

\* two sprites, every position, height case and flag
PairOams ==
    {Oam(<<<<y1, x1, 1, f1>>, <<y2, x2, 2, f2>>>>) :
        y1 \in SpriteYs, x1 \in SpriteXs, f1 \in SpriteFlags,
        y2 \in SpriteYs, x2 \in SpriteXs, f2 \in SpriteFlags}

\* MaxLineSprites sprites on the line, each at one of two X
TieOams ==
    {Oam([i \in 1 .. MaxLineSprites |->
            <<26, xs[i], 1 + (i % 3), IF i % 2 = 0 THEN OBJ_PALETTE ELSE 0>>]) :
        xs \in [1 .. MaxLineSprites -> TieXs]}

\* 12 sprites at X = 4, 8, ..., 48, in ascending and in descending OAM order
ExampleOams ==
    {Oam([i \in 1 .. 12 |-> <<26, 4 * i, 1, 0>>]),
     Oam([i \in 1 .. 12 |-> <<26, 4 * (13 - i), 1, 0>>])}

SpriteOams == PairOams \cup TieOams \cup ExampleOams

InitSprite ==
    /\ rom = DefaultRom
    /\ prog = NoProg
    /\ \E o \in SpriteOams, size \in {0, LCDC_OBJ_SIZE} :
          gb = [GbInitLcd(GbInitOp(BlankGb, DefaultRom, 0).g) EXCEPT
                    !.oam = o, !.vram = SpriteVram,
                    !.hram_io[IO_LCDC] = LCDC_ENABLE + LCDC_OBJ_ENABLE + size,
                    !.hram_io[IO_OBP0] = 228, !.hram_io[IO_OBP1] = 228,
                    !.hram_io[IO_LY] = SpriteLine]
    /\ loc = "draw"
    /\ init_ret = GB_INIT_NO_ERROR
    /\ inst_cycles = 0
    /\ elapsed = 0

NextSprite == GbDrawLine

SpecSprite == InitSprite /\ [][NextSprite]_vars

\* the sprites that intersect the line: LY + 16 - Y in [0, height)
SpriteHeight(g) == IF BitSet(g.hram_io[IO_LCDC], LCDC_OBJ_SIZE) THEN 16 ELSE 8
OnLineSprites(g) ==
    {s \in 0 .. NUM_SPRITES - 1 :
        LET d == Line(g) + 16 - g.oam[4 * s] IN d >= 0 /\ d < SpriteHeight(g)}

\* the order (X, then OAM index)
SpriteBefore(g, r, s) ==
    \/ g.oam[4 * r + 1] < g.oam[4 * s + 1]
    \/ g.oam[4 * r + 1] = g.oam[4 * s + 1] /\ r < s

\* the number of sprites of the line before s in that order
SpriteRank(g, s) == Cardinality({r \in OnLineSprites(g) : SpriteBefore(g, r, s)})

\* the selection holds exactly the min(n, 10) smallest sprites of the line,
\* in the order (X, then OAM index)
SelectionKeepsSmallest(g) ==
    LET str == SpritesToRender(g)
        n == Cardinality(OnLineSprites(g))
    IN  /\ Len(str) = IF n < MAX_SPRITES_LINE THEN n ELSE MAX_SPRITES_LINE
        /\ \A k \in 1 .. Len(str) :
              /\ str[k].sprite_number \in OnLineSprites(g)
              /\ SpriteRank(g, str[k].sprite_number) = k - 1
              /\ str[k].x = g.oam[4 * str[k].sprite_number + 1]

\* the colour number sprite s has at display column x (0: transparent or
\* not there): the sprite covers columns X - 8 .. X - 1
SpriteColourAt(g, s, x) ==
    LET tall == SpriteHeight(g) = 16
        OF == g.oam[4 * s + 3]
        col == x - (g.oam[4 * s + 1] - 8)
        row0 == Line(g) + 16 - g.oam[4 * s]
        row == IF BitSet(OF, OBJ_FLIP_Y) THEN SpriteHeight(g) - 1 - row0 ELSE row0
        tile == IF tall THEN 2 * (g.oam[4 * s + 2] \div 2) ELSE g.oam[4 * s + 2]
        bit == IF BitSet(OF, OBJ_FLIP_X) THEN col ELSE 7 - col
    IN  IF col \notin 0 .. 7 THEN 0
        ELSE ((g.vram[tile * 16 + 2 * row] \div (2 ^ bit)) % 2)
             + 2 * ((g.vram[tile * 16 + 2 * row + 1] \div (2 ^ bit)) % 2)

\* the byte lcd_draw_line gets for a pixel of sprite s of colour c
SpritePixel(g, s, c) ==
    LET OF == g.oam[4 * s + 3]
    IN  IF BitSet(OF, OBJ_PALETTE) THEN sp_palette(g, c + 4) + OBJ_PALETTE
                                   ELSE sp_palette(g, c)

\* the first in the order (X, then OAM index) of a set of sprites
FirstSprite(g, S) == CHOOSE s \in S : \A r \in S \ {s} : SpriteBefore(g, s, r)

\* the line lcd_draw_line was given shows, at every column where retained
\* sprites of the set kept have an opaque pixel, the first of them in the
\* order (X, then OAM index), and nothing of a sprite elsewhere
LowestWins(g, kept) ==
    \A x \in 0 .. LCD_WIDTH - 1 :
        LET here == {s \in kept : SpriteColourAt(g, s, x) # 0}
        IN  g.direct.priv.pixels[x] =
                IF here = {} THEN 0
                ELSE LET s == FirstSprite(g, here)
                     IN  SpritePixel(g, s, SpriteColourAt(g, s, x))

RetainedSprites(g) == {s \in OnLineSprites(g) : SpriteRank(g, s) < MAX_SPRITES_LINE}

\* C32: the selection keeps the min(n, 10) smallest sprites of the line in
\* the order (X, then OAM index), and the drawn line shows at every column
\* the smallest retained sprite that is opaque there, nothing of a sprite
\* beyond the tenth
C32_LowestSpriteWins ==
    loc = "drawn" =>
        /\ SelectionKeepsSmallest(gb)
        /\ LowestWins(gb, RetainedSprites(gb))

\* the sprites of a set whose flags have OBJ_PRIORITY
PrioritySprites(g, S) == {s \in S : BitSet(g.oam[4 * s + 3], OBJ_PRIORITY)}

\* what holds of the drawn line: the selection is as stated, and the
\* smallest opaque sprite wins wherever no retained sprite has OBJ_PRIORITY
LowestWinsWithoutPriority ==
    loc = "drawn" =>
        /\ SelectionKeepsSmallest(gb)
        /\ PrioritySprites(gb, RetainedSprites(gb)) = {} =>
              LowestWins(gb, RetainedSprites(gb))

\* the failing input: sprites 0 and 1 at X = 8 on line 10, sprite 0 with
\* OBJ_PRIORITY; column 4 shows sprite 1 (colour 2) where sprite 0 (colour
\* 1) is opaque too
HigherIndexShows ==
    /\ loc = "drawn"
    /\ gb.oam[0] = 26 /\ gb.oam[1] = 8 /\ gb.oam[3] = OBJ_PRIORITY
    /\ gb.oam[4] = 26 /\ gb.oam[5] = 8 /\ gb.oam[7] = 0
    /\ SpriteColourAt(gb, 0, 4) = 1
    /\ SpriteColourAt(gb, 1, 4) = 2
    /\ gb.direct.priv.pixels[4] = 2

\* 12 sprites at X = 4 .. 48 are on the line: columns 40-47, which only the
\* sprites at X = 44 and 48 cover, are left blank, column 39 is drawn
TwelveOnLine ==
    /\ loc = "drawn"
    /\ Cardinality(OnLineSprites(gb)) = 12
    /\ \A s \in 0 .. 11 : gb.oam[4 * s + 1] = 4 * (s + 1)
    /\ \A x \in 40 .. 47 : gb.direct.priv.pixels[x] = 0
    /\ gb.direct.priv.pixels[39] = 1

\* sprites at equal X overlap and the one of lower OAM index shows
TieShown ==
    /\ loc = "drawn"
    /\ gb.oam[1] = 8 /\ gb.oam[5] = 8
    /\ SpriteColourAt(gb, 0, 4) # 0 /\ SpriteColourAt(gb, 1, 4) # 0
    /\ gb.direct.priv.pixels[4] = SpritePixel(gb, 0, SpriteColourAt(gb, 0, 4))
    /\ gb.direct.priv.pixels[4] # SpritePixel(gb, 1, SpriteColourAt(gb, 1, 4))

(***************************************************************************)
(* SpecDaa: the guest executes ADD A,B and DAA at 0x0100 in a frame that   *)
(* starts with any A and any flags (earlier frames left them), B = 0x38.   *)
(***************************************************************************)
DaaProgram == {ADD_A_B, DAA}
Flags == [z : {0, 1}, n : {0, 1}, h : {0, 1}, c : {0, 1}]

InitDaa ==
    /\ rom = DefaultRom
    /\ prog = NoProg
    /\ \E a \in Byte, f \in Flags :
          gb = [GbInitOp(BlankGb, DefaultRom, 0).g EXCEPT
                    !.cpu_reg.a = a, !.cpu_reg.f = f, !.cpu_reg.bc = 56 * 256]
    /\ loc = "idle"
    /\ init_ret = GB_INIT_NO_ERROR
    /\ inst_cycles = 0
    /\ elapsed = 0

NextDaa ==
    \/ GbRunFrame
    \/ GbStepInterrupts
    \/ \E ins \in DaaProgram : GbStepCpu(ins, MaxDaaProg)
    \/ GbStepTiming

SpecDaa == InitDaa /\ [][NextDaa]_vars

\* the step executes the instruction ins
Executes(ins) == loc = "fetch" /\ loc' = "timing" /\ prog'[FetchKey(gb)] = ins

\* the adjusted value before it is cut to a byte: with N = 0, 0x06 is added
\* if H is set or the low nibble exceeds 9, then 0x60 if C is set or the
\* running value exceeds 0x9F; with N = 1, 0x06 is subtracted if H is set
\* and 0x60 if C is set
DaaAdjusted(a, f) ==
    IF f.n = 0
    THEN LET v == a + (IF f.h = 1 \/ a % 16 > 9 THEN 6 ELSE 0)
         IN  v + (IF f.c = 1 \/ v > 159 THEN 96 ELSE 0)
    ELSE a - (IF f.h = 1 THEN 6 ELSE 0) - (IF f.c = 1 THEN 96 ELSE 0)

\* C33: DAA leaves A = the adjusted value as a byte, Z = (A = 0), H = 0, N
\* as it was, and C set on a carry out of bit 7 and as it was otherwise;
\* ADD A,B with A = 0x45 and B = 0x38 leaves A = 0x7D with H = 0 and C = 0
C33_DaaAdjusts ==
    [][/\ Executes(DAA) =>
             LET v == DaaAdjusted(gb.cpu_reg.a, gb.cpu_reg.f)
             IN  /\ gb'.cpu_reg.a = v % 256
                 /\ gb'.cpu_reg.f.z = (IF gb'.cpu_reg.a = 0 THEN 1 ELSE 0)
                 /\ gb'.cpu_reg.f.h = 0
                 /\ gb'.cpu_reg.f.n = gb.cpu_reg.f.n
                 /\ gb'.cpu_reg.f.c = (IF v > 255 THEN 1 ELSE gb.cpu_reg.f.c)
       /\ Executes(ADD_A_B) /\ gb.cpu_reg.a = 69 =>
             /\ gb'.cpu_reg.a = 125
             /\ gb'.cpu_reg.f = [z |-> 0, n |-> 0, h |-> 0, c |-> 0]]_vars

\* C33 witness: ADD A,B at 0x0100 and DAA at 0x0101 have left A = 0x83 with
\* H = 0, Z = 0 and C = 0, which only A = 0x45 before the ADD gives
C33_WitnessBcd45Plus38 ==
    /\ prog[256] = ADD_A_B
    /\ prog[257] = DAA
    /\ loc = "timing"
    /\ gb.cpu_reg.pc = 258
    /\ gb.cpu_reg.a = 131
    /\ gb.cpu_reg.f = [z |-> 0, n |-> 0, h |-> 0, c |-> 0]

\* DAA after a subtraction with H and C set wrapped below 0: C stays set
DaaBorrowed ==
    /\ prog[256] = DAA
    /\ loc = "timing"
    /\ gb.cpu_reg.pc = 257
    /\ gb.cpu_reg.f.n = 1 /\ gb.cpu_reg.f.c = 1
    /\ gb.cpu_reg.a = 154

\* DAA after an addition carried out of bit 7 and left A = 0
DaaCarriedToZero ==
    /\ prog[256] = DAA
    /\ loc = "timing"
    /\ gb.cpu_reg.pc = 257
    /\ gb.cpu_reg.f = [z |-> 1, n |-> 0, h |-> 0, c |-> 1]
    /\ gb.cpu_reg.a = 0

(***************************************************************************)
(* SpecWindow: the host has called gb_init_lcd and chosen interlacing and  *)
(* frame skip; the guest switches the window on, writes WY and WX during   *)
(* line 0 of the first frame and halts; the halt ends at VBlank, and a     *)
(* second halt in the handler runs through the second frame.               *)
(***************************************************************************)
WinProgram == {HALT, LDH(IO_LCDC, 177), LDH(IO_WY, 2), LDH(IO_WX, 167)}

InitWindow ==
    /\ rom = DefaultRom
    /\ prog = NoProg
    /\ \E il \in BOOLEAN, fs \in BOOLEAN :
          gb = [GbInitLcd(GbInitOp(BlankGb, DefaultRom, 0).g) EXCEPT
                    !.direct.interlace = il, !.direct.frame_skip = fs]
    /\ loc = "idle"
    /\ init_ret = GB_INIT_NO_ERROR
    /\ inst_cycles = 0
    /\ elapsed = 0

NextWindow ==
    \/ GbRunFrame
    \/ GbStepInterrupts
    \/ \E ins \in WinProgram : GbStepCpu(ins, MaxWinProg)
    \/ GbStepTiming

SpecWindow == InitWindow /\ [][NextWindow]_vars

\* the step of the timing loop that starts line 0
StartsLine0 == loc = "timing" /\ Line(gb) # 0 /\ Line(gb') = 0 /\ LcdOn(gb)

\* the step of the timing loop that goes from Mode 2 to Mode 3
EntersDraw == loc = "timing" /\ Mode(gb) = 2 /\ Mode(gb') = 3

\* __gb_draw_line is called and does not return early
LineComposed(g) ==
    /\ ~g.lcd_blank
    /\ g.display.lcd_draw_line
    /\ ~(g.direct.frame_skip /\ ~g.display.frame_skip_count)

\* the window line counter of a step: latched and reset at the start of
\* line 0, one more at the Mode 2 to Mode 3 step of a line that counts, and
\* kept by every other step, a guest store to WY included
WindowCounterRule(counts) ==
    /\ StartsLine0 =>
          /\ gb'.display.WY = gb.hram_io[IO_WY]
          /\ gb'.display.window_clear = 0
    /\ ~StartsLine0 => gb'.display.WY = gb.display.WY
    /\ EntersDraw =>
          gb'.display.window_clear =
              IF counts THEN gb.display.window_clear + 1 ELSE gb.display.window_clear
    /\ ~StartsLine0 /\ ~EntersDraw =>
          gb'.display.window_clear = gb.display.window_clear

\* C34 as stated: the counter increases on the lines whose window pixels
\* are drawn and on no other, the lines skipped by interlacing among them
C34_CounterOnDrawnLines ==
    [][WindowCounterRule(/\ LineComposed(gb)
                         /\ WindowOnLine(gb)
                         /\ ~InterlaceSkips(gb))]_vars

\* C34: the counter is reset and WY latched at the start of line 0; the
\* counter increases by one at the Mode 2 to Mode 3 step of every line for
\* which __gb_draw_line passes its frame skip test and the window
\* condition holds (window enabled, LY >= latched WY, WX <= 166), whether
\* the line is drawn or skipped by interlacing, and no other step changes
\* the counter or the latched WY
C34_CounterOnWindowLines ==
    [][WindowCounterRule(LineComposed(gb) /\ WindowOnLine(gb))]_vars

\* C34 witness: with interlacing, in the first frame, line 1 was drawn and
\* line 2 was skipped, and the counter is 2; the guest's WY of 2, written
\* during line 0, is not the latched one
C34_WitnessSkippedLineCounted ==
    /\ gb.direct.interlace /\ ~gb.direct.frame_skip
    /\ Line(gb) = 2 /\ Mode(gb) = 3
    /\ gb.direct.priv.line = 1
    /\ gb.display.window_clear = 2
    /\ gb.hram_io[IO_WY] = 2 /\ gb.display.WY = 0

\* in the second frame WY = 2 was latched and line 5 is the fourth window
\* line drawn
LatchedWindowDrawn ==
    /\ ~gb.direct.interlace /\ ~gb.direct.frame_skip
    /\ gb.display.WY = 2
    /\ Line(gb) = 5 /\ Mode(gb) = 3
    /\ gb.direct.priv.line = 5
    /\ gb.display.window_clear = 4

\* with frame skip the first frame is not drawn and the counter stays 0
SkippedFrameUncounted ==
    /\ gb.direct.frame_skip /\ ~gb.display.frame_skip_count
    /\ BitSet(gb.hram_io[IO_LCDC], LCDC_WINDOW_ENABLE)
    /\ Line(gb) = 143 /\ Mode(gb) = 0
    /\ gb.direct.priv.line = -1
    /\ gb.display.window_clear = 0

\* WX = 167 hides the window: lines are drawn and the counter stays 0
HiddenWindowUncounted ==
    /\ BitSet(gb.hram_io[IO_LCDC], LCDC_WINDOW_ENABLE)
    /\ gb.hram_io[IO_WX] = 167
    /\ gb.direct.priv.line = 100
    /\ gb.display.window_clear = 0

(***************************************************************************)
(* SpecJoyp: the host sets direct.joypad before it calls gb_run_frame (a   *)
(* clear bit is a pressed key); the guest writes JOYP and reads it.        *)
(***************************************************************************)
JoypadValues == {255, 254, 127, 165}
JoypValues == {0, 16, 32, 48, 31, 47, 255}
JoypProgram == {LD_A_A16(IO_ADDR + IO_JOYP)} \cup {LDH(IO_JOYP, v) : v \in JoypValues}

\* the host stores the state of the keys
HostSetsJoypad(j) ==
    /\ loc = "idle"
    /\ gb' = [gb EXCEPT !.direct.joypad = j]
    /\ UNCHANGED <<rom, prog, loc, init_ret, inst_cycles, elapsed>>

NextJoyp ==
    \/ \E j \in JoypadValues : HostSetsJoypad(j)
    \/ GbRunFrame
    \/ GbStepInterrupts
    \/ \E ins \in JoypProgram : GbStepCpu(ins, MaxJoypProg)
    \/ GbStepTiming

SpecJoyp == Init /\ [][NextJoyp]_vars

\* what a store of v to JOYP and a load from 0xFF00 do, given the low
\* nibble the store is to leave
JoypRule(low(_, _)) ==
    /\ \A v \in JoypValues :
          StoresIO(IO_JOYP, v) =>
              /\ And8(gb'.hram_io[IO_JOYP], 48) = And8(v, 48)
              /\ gb'.hram_io[IO_JOYP] % 16 = low(gb.direct.joypad, v)
    /\ Loads(IO_ADDR + IO_JOYP) => gb'.cpu_reg.a = gb.hram_io[IO_JOYP]
    /\ (\A v \in JoypValues : ~StoresIO(IO_JOYP, v)) =>
          gb'.hram_io[IO_JOYP] = gb.hram_io[IO_JOYP]

\* the low nibble with the low nibble of the written value in it
JoypadNibbleOr(joypad, v) == Or8(v % 16, JoypadNibble(joypad, v))

\* C35: a store of v to JOYP leaves bits 4-5 of v and, as low nibble, the
\* direction nibble of direct.joypad when bit 4 of v is 0 and the button
\* nibble otherwise, whatever the low nibble of v; a load from 0xFF00
\* returns the register, and no other step changes it
C35_LowNibbleFromJoypad == [][JoypRule(JoypadNibble)]_vars

\* what holds: the low nibble of v is ORed into the nibble taken from
\* direct.joypad
LowNibbleOred == [][JoypRule(JoypadNibbleOr)]_vars

\* the failing input: button A is pressed (joypad 0xFE) and the guest
\* stored 0x1F and loaded 0xFF00: A is 0x1F, its low nibble 0xF and not 0xE
PressedKeyMasked ==
    /\ gb.direct.joypad = 254
    /\ prog[256] = LDH(IO_JOYP, 31)
    /\ prog[258] = LD_A_A16(IO_ADDR + IO_JOYP)
    /\ gb.cpu_reg.pc = 261
    /\ loc = "timing"
    /\ gb.cpu_reg.a = 31

\* with the low nibble of v clear the pressed key is read: button A with
\* the buttons selected (bit 4 set) reads 0x1E
PressedKeyRead ==
    /\ gb.direct.joypad = 254
    /\ prog[256] = LDH(IO_JOYP, 16)
    /\ prog[258] = LD_A_A16(IO_ADDR + IO_JOYP)
    /\ gb.cpu_reg.pc = 261
    /\ loc = "timing"
    /\ gb.cpu_reg.a = 30

\* a key pressed since reset is not read before the guest writes JOYP
PressedKeyUnread ==
    /\ gb.direct.joypad = 254
    /\ prog[256] = LD_A_A16(IO_ADDR + IO_JOYP)
    /\ gb.cpu_reg.pc = 259
    /\ loc = "timing"
    /\ gb.cpu_reg.a = 207

(***************************************************************************)
(* The RAM enable range 0x0000-0x1FFF, over SpecMbc.                       *)
(***************************************************************************)
\* the banking registers other than the RAM enable flag
BankRegisters(g) == <<g.selected_rom_bank, g.cart_ram_bank, g.cart_mode_select>>

\* a store of 0x0A to 0x0000 on an MBC1, MBC3 or MBC5 cartridge, with cart
\* RAM if ram
RamEnableStore(ram) ==
    /\ Stores(0, 10)
    /\ gb.mbc \in {1, 3, 5}
    /\ ram => gb.cart_ram # 0

\* C36: on MBC1, MBC3 and MBC5 a store to 0x0000-0x1FFF changes none of
\* selected_rom_bank, cart_ram_bank and the mode register, with or without
\* cart RAM
C36_RamEnableKeepsBanks ==
    [][RamEnableStore(FALSE) => BankRegisters(gb') = BankRegisters(gb)]_vars

\* what holds: on the cartridges with cart RAM the store changes the RAM
\* enable flag only; without cart RAM it leaves the flag and selects a ROM
\* bank
RamEnableKeepsBanksWithRam ==
    [][/\ RamEnableStore(TRUE) =>
             /\ BankRegisters(gb') = BankRegisters(gb)
             /\ gb'.enable_cart_ram = 1
       /\ RamEnableStore(FALSE) /\ gb.cart_ram = 0 =>
             /\ gb'.enable_cart_ram = gb.enable_cart_ram
             /\ gb'.cart_ram_bank = gb.cart_ram_bank
             /\ gb'.cart_mode_select = gb.cart_mode_select]_vars

\* the failing input: MBC1 without RAM (type 0x01), 32 banks; the first
\* instruction stores 0x0A to 0x0000 and ROM bank 10 is selected
NoRamStoreSelectsBank ==
    /\ gb.mbc = 1 /\ gb.cart_ram = 0 /\ gb.num_rom_banks_mask = 31
    /\ prog[256] = LD_A16(0, 10)
    /\ gb.cpu_reg.pc = 259
    /\ loc = "timing"
    /\ gb.selected_rom_bank = 10
    /\ gb.enable_cart_ram = 0

\* the same store on MBC1 with RAM (type 0x03) enables the RAM
RamStoreEnables ==
    /\ gb.mbc = 1 /\ gb.cart_ram # 0
    /\ prog[256] = LD_A16(0, 10)
    /\ gb.cpu_reg.pc = 259
    /\ loc = "timing"
    /\ gb.selected_rom_bank = 1
    /\ gb.enable_cart_ram = 1

(***************************************************************************)
(* SpecBank: an MBC3 cartridge with RTC; the guest writes the RAM bank /   *)
(* RTC select register at 0x4000 and reads and writes 0xA000.              *)
(***************************************************************************)
BankValues == {3, 8, 12, 13, 255}
BankProgram ==
    {LD_A16(16384, v) : v \in BankValues}
    \cup {LD_A16(CART_RAM_ADDR, 63)}
    \cup {Ins(250, CART_RAM_ADDR, mem) : mem \in {0, 170}}

\* the index into the RTC arrays an access to 0xA000-0xBFFF uses
RtcIndex(g) == g.cart_ram_bank - 8

\* ins is a store to 0xA000 through an RTC index past the arrays
RtcOverrun(g, ins) ==
    /\ ins.code = 234 /\ ins.imm = CART_RAM_ADDR
    /\ RtcSelected(g) /\ RtcIndex(g) >= 5

\* rtc_real.bytes[reg] = val & rtc_reg_mask[reg] with reg past the end of
\* both arrays: mask is the byte found past rtc_reg_mask, and the byte
\* stored lands past rtc_real, here in cpu_reg.a (GbStepCpu is the case in
\* which it lands outside the modelled context)
GbStepOverrun(ins, n, mask) ==
    /\ loc = "fetch"
    /\ RtcOverrun(gb, ins)
    /\ LET r == Execute(gb, ins)
           at == FetchKey(gb)
       IN  /\ at \in ProgAddrs
           /\ prog[at] \in {NoIns, ins}
           /\ InProg(r.g.cpu_reg.pc, n)
           /\ prog' = [prog EXCEPT ![at] = ins]
           /\ gb' = [r.g EXCEPT !.cpu_reg.a = And8(ins.a, mask)]
           /\ inst_cycles' = r.cycles
    /\ loc' = "timing"
    /\ UNCHANGED <<rom, init_ret, elapsed>>

NextBank ==
    \/ RunFirstFrame
    \/ GbStepInterrupts
    \/ \E ins \in BankProgram : GbStepCpu(ins, MaxBankProg)
    \/ \E ins \in BankProgram, mask \in {0, 15} : GbStepOverrun(ins, MaxBankProg, mask)
    \/ GbStepTimingClock

SpecBank == InitLatch /\ [][NextBank]_vars

\* C37: on MBC3 a cart_ram_bank of 0x08 or more is at most 0x0C, so the
\* index into the five-byte RTC arrays is in 0..4
C37_RtcIndexInRange ==
    (gb.mbc = 3 /\ gb.cart_ram_bank >= 8) => RtcIndex(gb) \in 0 .. 4

\* what holds: a store of v to 0x4000 leaves v in cart_ram_bank when v is
\* 8 or more, and v & 3 otherwise (the cartridge has no more than 4 banks)
BankStoredAsWritten ==
    [][\A v \in BankValues :
          Stores(16384, v) =>
              gb'.cart_ram_bank = IF v >= 8 THEN v ELSE v % 4]_vars

\* the failing input: the guest stored 0xFF to 0x4000 and 0x3F to 0xA000:
\* index 247
IndexPastArrays ==
    /\ prog[256] = LD_A16(16384, 255)
    /\ prog[259] = LD_A16(CART_RAM_ADDR, 63)
    /\ gb.cpu_reg.pc = 262
    /\ loc = "timing"
    /\ RtcIndex(gb) = 247

\* the store through index 5 changed A
OverrunChangedA ==
    /\ prog[256] = LD_A16(16384, 13)
    /\ prog[259] = LD_A16(CART_RAM_ADDR, 63)
    /\ gb.cpu_reg.pc = 262
    /\ loc = "timing"
    /\ gb.cpu_reg.a = 15

\* a read through index 5 gave the byte found there
OverrunRead ==
    /\ prog[256] = LD_A16(16384, 13)
    /\ prog[259] = Ins(250, CART_RAM_ADDR, 170)
    /\ gb.cpu_reg.pc = 262
    /\ loc = "timing"
    /\ gb.cpu_reg.a = 170

\* register 0x0C selected and written: the day-high register, masked
DayHighWritten ==
    /\ prog[256] = LD_A16(16384, 12)
    /\ prog[259] = LD_A16(CART_RAM_ADDR, 63)
    /\ gb.cpu_reg.pc = 262
    /\ loc = "timing"
    /\ gb.rtc_real[5] = 1

(***************************************************************************)
(* SpecDraw: the calls of lcd_draw_line. The host has called gb_init_lcd,  *)
(* with or without interlacing and frame skip. The guest may enable the    *)
(* Mode 0 STAT interrupt to leave a HALT at the HBlank of a line, switch   *)
(* the LCD off and on again, and halt through the frames that follow.      *)
(***************************************************************************)
DrawProgram ==
    {HALT, DI, LDH(IO_IE, 2), LDH(IO_IE, 0), LDH(IO_STAT, 8),
     LDH(IO_LCDC, 17), LDH(IO_LCDC, 145)}

\* the order of the guest: DI comes first; the STAT interrupt is enabled
\* (IE, then STAT) before the LCD is touched; the LCD is switched off once
\* and then on; IE is cleared after that; the guest halts with the LCD on
\* and an end of the HALT in sight (none is wanted once IE is clear)
DrawGuest(ins) ==
    /\ ins = HALT =>
          /\ LcdOn(gb)
          /\ gb.hram_io[IO_IE] = 0 \/ BitSet(gb.hram_io[IO_STAT], STAT_MODE_0_INTR)
    /\ ins = DI => gb.cpu_reg.pc = ResetEntry
    /\ ins = LDH(IO_IE, 2) =>
          gb.hram_io[IO_IE] = 0 /\ LcdOn(gb) /\ ~gb.lcd_blank
    /\ ins = LDH(IO_STAT, 8) =>
          gb.hram_io[IO_IE] = 2 /\ ~BitSet(gb.hram_io[IO_STAT], STAT_MODE_0_INTR)
    /\ ins = LDH(IO_LCDC, 17) => LcdOn(gb) /\ ~gb.lcd_blank
    /\ ins = LDH(IO_LCDC, 145) => ~LcdOn(gb)
    /\ ins = LDH(IO_IE, 0) => gb.hram_io[IO_IE] = 2 /\ gb.lcd_blank

NextDraw ==
    \/ GbRunFrame
    \/ GbStepInterrupts
    \/ \E ins \in DrawProgram : DrawGuest(ins) /\ GbStepCpu(ins, MaxDrawProg)
    \/ GbStepTiming

SpecDraw == InitWindow /\ [][NextDraw]_vars

\* the step called lcd_draw_line
DrawCalled == gb'.direct.priv.drawn # gb.direct.priv.drawn

\* the step is a guest store that switches the LCD on
SwitchOnStep == loc = "fetch" /\ ~LcdOn(gb) /\ LcdOn(gb')

\* the step of the timing loop that enters VBlank
VBlankEntryStep == loc = "timing" /\ Line(gb) = LCD_HEIGHT - 1 /\ Line(gb') = LCD_HEIGHT

\* lcd_blank says that a guest store has switched the LCD on since the
\* last VBlank entry
BlankRule ==
    /\ SwitchOnStep => gb'.lcd_blank
    /\ VBlankEntryStep => ~gb'.lcd_blank
    /\ ~SwitchOnStep /\ ~VBlankEntryStep => gb'.lcd_blank = gb.lcd_blank

DrawCallRule ==
    DrawCalled =>
        /\ EntersDraw
        /\ LcdOn(gb) /\ LcdOn(gb')
        /\ ~gb.lcd_blank
        /\ Line(gb') = Line(gb)
        /\ gb'.direct.priv.line = Line(gb)
        /\ Line(gb) \in 0 .. LCD_HEIGHT - 1
        /\ gb'.direct.priv.line > gb.direct.priv.frame_line

\* C38: lcd_draw_line is called only in the step of the timing loop that
\* goes from Mode 2 to Mode 3, with line = LY in 0..143, with a line number
\* above that of every call since the last VBlank entry (so at most once
\* per scanline), with the LCD enabled, and not between a guest store that
\* switches the LCD on and the next VBlank entry
C38_DrawLineCalls == [][BlankRule /\ DrawCallRule]_vars

\* C38 witness: the guest left its HALT after line 1 was drawn, switched
\* the LCD off and on, and halted; line 100 is in Mode 3 and was not drawn
C38_WitnessBlankedLine ==
    /\ gb.lcd_blank /\ LcdOn(gb)
    /\ gb.display.lcd_draw_line /\ ~gb.direct.frame_skip /\ ~gb.direct.interlace
    /\ Line(gb) = 100 /\ Mode(gb) = 3
    /\ gb.direct.priv.frame_line = 1

\* after the VBlank entry that followed the switch-on, lines are drawn again
DrawnAfterVBlank ==
    /\ \E p \in ProgAddrs : prog[p] = LDH(IO_LCDC, 145)
    /\ ~gb.lcd_blank
    /\ Line(gb) = 5 /\ Mode(gb) = 3
    /\ gb.direct.priv.frame_line = 5

\* with interlacing line 4 was called after line 2, line 3 left out
InterlacedCalls ==
    /\ gb.direct.interlace /\ ~gb.direct.frame_skip
    /\ Line(gb) = 3 /\ Mode(gb) = 3
    /\ gb.direct.priv.frame_line = 2

\* the last line of a frame was called
LastLineCalled ==
    /\ Line(gb) = 143 /\ Mode(gb) = 0
    /\ gb.direct.priv.frame_line = 143

(***************************************************************************)
(* SpecTransfer: the calls of gb_serial_tx in the first frame after reset. *)
(* The host may install serial callbacks; the guest starts a transfer with *)
(* the internal or the external clock when none is in progress, may abort  *)
(* it by clearing SC, may start another, and halts.                        *)
(***************************************************************************)
TransferProgram == {HALT, LDH(IO_SC, 128), LDH(IO_SC, 129), LDH(IO_SC, 0)}

StartStores == {LDH(IO_SC, 128), LDH(IO_SC, 129)}

\* the guest sets SC bit 7 when it is clear and clears it when it is set
TransferGuest(ins) ==
    /\ ins \in StartStores => ~BitSet(gb.hram_io[IO_SC], SERIAL_SC_TX_START)
    /\ ins = LDH(IO_SC, 0) => BitSet(gb.hram_io[IO_SC], SERIAL_SC_TX_START)

NextTransfer ==
    \/ \E tx, rx \in BOOLEAN : GbInitSerial(tx, rx)
    \/ RunFirstFrame
    \/ GbStepInterrupts
    \/ \E ins \in TransferProgram :
          TransferGuest(ins) /\ GbStepCpu(ins, MaxTransferProg)
    \/ \E rx \in RxOutcomes : GbStepTimingPeripheral(rx)

SpecTransfer == Init /\ [][NextTransfer]_vars

\* the iteration of the timing loop called gb_serial_tx
TxCalled == Priv(gb').tx_calls = Priv(gb).tx_calls + 1

\* the iteration of the timing loop that follows the store that set SC bit
\* 7: the guest's code is straight-line, the store is two bytes long
TransferBegins ==
    /\ ~gb.gb_halt
    /\ gb.cpu_reg.pc - 2 \in ProgAddrs
    /\ prog[gb.cpu_reg.pc - 2] \in StartStores

\* C39 as stated: with a gb_serial_tx installed, the iterations of the
\* timing loop that call it are those that begin a transfer: one call for
\* each transfer, at its start and so before the gb_serial_rx call that
\* ends it, no second call for the same transfer, none left out
C39_TxOncePerTransfer ==
    [][loc = "timing" /\ gb.gb_serial_tx =>
          /\ TxCalled <=> TransferBegins
          /\ ~TxCalled => Priv(gb').tx_calls = Priv(gb).tx_calls]_vars

\* what holds: gb_serial_tx is called in the iterations that find SC bit 7
\* set and serial_count at 0
TxWhenCountZero ==
    [][loc = "timing" /\ gb.gb_serial_tx =>
          /\ TxCalled <=> TransferStarted(gb) /\ gb.counter.serial_count = 0
          /\ ~TxCalled => Priv(gb').tx_calls = Priv(gb).tx_calls]_vars

\* one transfer with the external clock, no peripheral: gb_serial_tx was
\* called three times
TxRepeated ==
    /\ prog[256] = LDH(IO_SC, 128) /\ prog[258] = HALT
    /\ gb.gb_serial_tx /\ ~gb.gb_serial_rx
    /\ TransferStarted(gb)
    /\ Priv(gb).tx_calls = 3

\* a transfer started, aborted and started again: the second has ended
\* with a byte received and gb_serial_tx was called once
TxSkipped ==
    /\ prog[256] = LDH(IO_SC, 129) /\ prog[258] = LDH(IO_SC, 0)
    /\ prog[260] = LDH(IO_SC, 129) /\ prog[262] = HALT
    /\ gb.gb_serial_tx /\ gb.gb_serial_rx
    /\ ~TransferStarted(gb) /\ SerialRequested(gb)
    /\ gb.hram_io[IO_SB] = 66
    /\ Priv(gb).tx_calls = 1 /\ Priv(gb).rx_calls = 1

\* one transfer with the internal clock: one call of each
TxOnce ==
    /\ prog[256] = LDH(IO_SC, 129) /\ prog[258] = HALT
    /\ gb.gb_serial_tx /\ gb.gb_serial_rx
    /\ ~TransferStarted(gb) /\ SerialRequested(gb)
    /\ Priv(gb).tx_calls = 1 /\ Priv(gb).rx_calls = 1
    /\ Line(gb) = 100

(***************************************************************************)
(* The table lookups of gb_init, over SpecInit.                            *)
(***************************************************************************)
RomBankMasks == {1, 3, 7, 15, 31, 63, 127, 255, 511}
RamBankCounts == {0, 1, 4, 8, 16}

\* C40: when gb_init does not return an error, the ROM size code indexes
\* the 9-entry table and the RAM size code the 6-entry table within their
\* ends, the bank mask is one of 1, 3, ..., 511 and the RAM bank count one
\* of 0, 1, 4, 8, 16
C40_LookupsInRange ==
    init_ret = GB_INIT_NO_ERROR =>
        /\ rom[328] < Len(num_rom_banks_tab)
        /\ rom[329] < Len(num_ram_banks_tab)
        /\ gb.num_rom_banks_mask \in RomBankMasks
        /\ gb.num_ram_banks \in RamBankCounts

\* what holds: with a ROM size code of 8 at most and a RAM size code of 5
\* at most the mask is 2^(code + 1) - 1 and the count is the table's, or 0
\* for a cartridge type without RAM
CodesInTableGiveBanks ==
    (init_ret = GB_INIT_NO_ERROR /\ rom[328] <= 8 /\ rom[329] <= 5) =>
        /\ gb.num_rom_banks_mask = num_rom_banks_tab[rom[328] + 1] - 1
        /\ gb.num_rom_banks_mask \in RomBankMasks
        /\ gb.num_ram_banks \in {0, num_ram_banks_tab[rom[329] + 1]}
        /\ gb.num_ram_banks \in RamBankCounts

\* gb_init succeeded on ROM size code 9 and the mask is 0xFFFF: the entry
\* read past the table was 0
MaskPastTable ==
    /\ init_ret = GB_INIT_NO_ERROR
    /\ rom[328] = 9
    /\ gb.num_rom_banks_mask = 65535

\* gb_init succeeded on RAM size code 6 of an MBC1 cartridge with RAM and
\* counts 255 RAM banks
RamBanksPastTable ==
    /\ init_ret = GB_INIT_NO_ERROR
    /\ rom[327] = 3 /\ rom[329] = 6
    /\ gb.num_ram_banks = 255

\* ROM size code 8 and RAM size code 3: mask 511 and 4 banks
LargestRomCode ==
    /\ init_ret = GB_INIT_NO_ERROR
    /\ rom[327] = 3 /\ rom[328] = 8 /\ rom[329] = 3
    /\ gb.num_rom_banks_mask = 511 /\ gb.num_ram_banks = 4

====
